---- MODULE Spec2Model ----
(***************************************************************************)
(* Model of the execution core of the backtesting engine:                  *)
(*   - Simulator  (the ledger: placeOrder / processOrders / updateEquity)  *)
(*   - Backtester::run (the bar loop with its circuit breaker)             *)
(*                                                                         *)
(* Money values (cash, prices, average entry, equity, pnl) are C++ doubles *)
(* in the program; here they are exact rationals <<n, d>> in lowest terms  *)
(* with d > 0.  Quantities and positions are whole numbers of shares (the  *)
(* engine has no fractional fills), kept as integers.  Timestamps are      *)
(* strings in the program; here bar timestamps are the naturals 1, 2, ...  *)
(* and 0 stands for the empty string.                                      *)
(***************************************************************************)
EXTENDS Integers, Sequences, FiniteSets, TLC

\* ------------------------------------------------------------------ bounds
\* longest bar sequence a run is given
MaxBars == 3
\* largest order quantity a caller passes to placeOrder
MaxQty == 2
\* number of Simulator calls made by a direct (test-style) driver
MaxOps == 4

\* ------------------------------------------------------- exact arithmetic
Abs(x) == IF x < 0 THEN 0 - x ELSE x

Min(a, b) == IF a < b THEN a ELSE b

RECURSIVE GCD(_, _)
GCD(a, b) == IF b = 0 THEN a ELSE GCD(b, a % b)

\* the rational n/d (d # 0) in lowest terms with a positive denominator
Norm(n, d) ==
    LET g == GCD(Abs(n), Abs(d))
        s == IF d < 0 THEN 0 - 1 ELSE 1
    IN  <<(s * n) \div g, (s * d) \div g>>

R(x) == <<x, 1>>

RAdd(a, b) == Norm(a[1] * b[2] + b[1] * a[2], a[2] * b[2])

RSub(a, b) == Norm(a[1] * b[2] - b[1] * a[2], a[2] * b[2])

RMul(a, b) == Norm(a[1] * b[1], a[2] * b[2])

\* a / b for b # 0 (every division of the core is guarded or has a positive divisor)
RDiv(a, b) == Norm(a[1] * b[2], a[2] * b[1])

RLe(a, b) == a[1] * b[2] <= b[1] * a[2]

RLt(a, b) == a[1] * b[2] < b[1] * a[2]

\* ------------------------------------------------------------ value types
Long == "Long"

Short == "Short"

Sides == {Long, Short}

\* Bar: timestamp, open, close (high, low and volume are not read by the core)
Bar(t, o, c) == [timestamp |-> t, open |-> o, close |-> c]

\* a default-constructed Bar
NoBar == Bar(0, 0, 0)

\* a default-constructed Order
DefaultOrder == [side |-> Long, quantity |-> 0, type |-> "Market"]

Trade(entry_time, exit_time, side, quantity, entry_price, exit_price, pnl, pnl_pct) ==
    [entry_time |-> entry_time, exit_time |-> exit_time, side |-> side,
     quantity |-> quantity, entry_price |-> entry_price, exit_price |-> exit_price,
     pnl |-> pnl, pnl_pct |-> pnl_pct]

\* ---------------------------------------------------------------- Simulator
\* POSITION_ZERO_EPS = 1e-9, kept as its reciprocal
POSITION_ZERO_EPS_RECIPROCAL == 1000000000

\* std::abs(x) < POSITION_ZERO_EPS for a position x (a whole number of shares)
NearZero(x) == IF Abs(x) >= 1 THEN FALSE ELSE Abs(x) * POSITION_ZERO_EPS_RECIPROCAL < 1

\* Simulator::Simulator: the ledger after construction.  slippage is the percentage
\* handed to the constructor (1 stands for the fraction 0.01).
NewSimulator(initial_cash, commission_per_trade, slippage_pct) ==
    [initial_cash |-> R(initial_cash),
     commission |-> R(commission_per_trade),
     slippage |-> Norm(slippage_pct, 100),
     cash |-> R(initial_cash),
     position |-> 0,
     avg_entry |-> R(0),
     equity |-> R(initial_cash),
     last_close |-> R(0),
     pending_order |-> DefaultOrder,
     has_pending |-> FALSE,
     trades |-> <<>>,
     equity_curve |-> <<>>,
     last_bar_time |-> 0]

\* placeOrder as it would be if an unfilled order were kept and the new one dropped
placeOrder_KeepFirst(s, side, quantity) ==
    IF quantity <= 0 \/ s.has_pending THEN s
    ELSE [s EXCEPT !.pending_order = [side |-> side, quantity |-> quantity, type |-> "Market"],
                   !.has_pending = TRUE]

\* placeOrder as it would be if a non-positive quantity cancelled the pending order
placeOrder_CancelOnInvalid(s, side, quantity) ==
    IF quantity <= 0 THEN [s EXCEPT !.has_pending = FALSE]
    ELSE [s EXCEPT !.pending_order = [side |-> side, quantity |-> quantity, type |-> "Market"],
                   !.has_pending = TRUE]

\* Simulator::placeOrder
placeOrder(s, side, quantity) ==
    IF quantity <= 0 THEN s
    ELSE [s EXCEPT !.pending_order = [side |-> side, quantity |-> quantity, type |-> "Market"],
                   !.has_pending = TRUE]

\* the fill price as it would be if the order were filled at the bar's close
FillPrice_AtClose(s, bar, side) == R(bar.close)

\* the fill price as it would be if the slippage member were read
FillPrice_Slipped(s, bar, side) ==
    IF side = Long THEN RMul(R(bar.open), RAdd(R(1), s.slippage))
    ELSE RMul(R(bar.open), RSub(R(1), s.slippage))

\* the fill price processOrders uses for a bar
FillPrice(s, bar, side) == R(bar.open)

\* the condition of the close branch as it would be with <= and >= for < and >: a flat
\* position would take the close branch too
IsOpposite_AlsoFlat(s, side) ==
    (side = Long /\ s.position <= 0) \/ (side = Short /\ s.position >= 0)

\* does the order reduce the current position: the condition of the close branch
IsOpposite(s, side) ==
    (side = Long /\ s.position < 0) \/ (side = Short /\ s.position > 0)

\* the realized pnl as it would be if the short case were forgotten
ClosePnl_SideBlind(s, side, fill_price, close_qty) ==
    RMul(RSub(fill_price, s.avg_entry), R(close_qty))

\* realized pnl of the close leg
ClosePnl(s, side, fill_price, close_qty) ==
    IF side = Long
    THEN RMul(RSub(s.avg_entry, fill_price), R(close_qty))
    ELSE RMul(RSub(fill_price, s.avg_entry), R(close_qty))

\* the Trade appended by the close leg
CloseTrade(s, bar, side, fill_price, close_qty) ==
    LET pnl == ClosePnl(s, side, fill_price, close_qty)
        tpnl == RSub(pnl, s.commission)
    IN  Trade(s.last_bar_time, bar.timestamp,
              IF s.position > 0 THEN Long ELSE Short,
              close_qty, s.avg_entry, fill_price, tpnl,
              IF s.avg_entry # R(0)
              THEN RMul(RDiv(tpnl, RMul(s.avg_entry, R(close_qty))), R(100))
              ELSE R(0))

\* the position after the close leg as it would be if every close took the whole
\* position
ClosePosition_Flatten(s, close_qty) == 0

\* position after the close leg, snapped to 0 within the epsilon
ClosePosition(s, close_qty) ==
    LET p == IF s.position > 0 THEN s.position - close_qty ELSE s.position + close_qty
    IN  IF NearZero(p) THEN 0 ELSE p

\* the close/reduce branch as it would be if the closed quantity were not capped by
\* the position
CloseLeg_NoMin(s, bar, side, fill_price, qty) ==
    LET pnl == ClosePnl(s, side, fill_price, qty)
        cash1 == RAdd(s.cash, RSub(pnl, s.commission))
    IN  [s EXCEPT !.cash = cash1,
                  !.equity = RAdd(cash1, RMul(R(s.position), fill_price)),
                  !.trades = Append(s.trades, CloseTrade(s, bar, side, fill_price, qty)),
                  !.position = ClosePosition(s, qty)]

\* the close/reduce branch as it would be if no Trade were recorded
CloseLeg_NoTrade(s, bar, side, fill_price, qty) ==
    LET close_qty == Min(qty, Abs(s.position))
        pnl == ClosePnl(s, side, fill_price, close_qty)
        cash1 == RAdd(s.cash, RSub(pnl, s.commission))
    IN  [s EXCEPT !.cash = cash1,
                  !.equity = RAdd(cash1, RMul(R(s.position), fill_price)),
                  !.position = ClosePosition(s, close_qty)]

\* the close/reduce branch up to (not including) the early return
CloseLeg(s, bar, side, fill_price, qty) ==
    LET close_qty == Min(qty, Abs(s.position))
        pnl == ClosePnl(s, side, fill_price, close_qty)
        cash1 == RAdd(s.cash, RSub(pnl, s.commission))
    IN  [s EXCEPT !.cash = cash1,
                  !.equity = RAdd(cash1, RMul(R(s.position), fill_price)),
                  !.trades = Append(s.trades, CloseTrade(s, bar, side, fill_price, close_qty)),
                  !.position = ClosePosition(s, close_qty)]

\* after the close leg: the order is used up (early return) or the average entry is
\* cleared when the position is flat
AfterClose(s1, qty1) ==
    IF qty1 <= 0 THEN s1
    ELSE IF NearZero(s1.position) THEN [s1 EXCEPT !.avg_entry = R(0)] ELSE s1

\* cash after the open/add leg
OpenCash(s, side, fill_price, qty) ==
    LET cost == IF side = Short THEN RSub(R(0), RMul(fill_price, R(qty)))
                ELSE RMul(fill_price, R(qty))
    IN  RSub(s.cash, RSub(cost, s.commission))

\* the average entry as it would be if the two prices were averaged without weights
OpenAvgEntry_Unweighted(s, fill_price, qty) ==
    IF s.position = 0 THEN fill_price
    ELSE RDiv(RAdd(s.avg_entry, fill_price), R(2))

\* average entry after the open/add leg
OpenAvgEntry(s, fill_price, qty) ==
    IF s.position = 0 THEN fill_price
    ELSE RDiv(RAdd(RMul(s.avg_entry, R(Abs(s.position))), RMul(fill_price, R(qty))),
              R(Abs(s.position) + qty))

\* the open/add branch
OpenLeg(s, side, fill_price, qty) ==
    [s EXCEPT !.cash = OpenCash(s, side, fill_price, qty),
              !.avg_entry = OpenAvgEntry(s, fill_price, qty),
              !.position = IF side = Long THEN s.position + qty ELSE s.position - qty]

\* processOrders as it would be if the early return after a close-only fill left the
\* pending slot and the last-processed time alone
processOrders_KeepSlot(s, bar) ==
    IF ~s.has_pending THEN s
    ELSE
      LET side == s.pending_order.side
          qty == s.pending_order.quantity
          fill_price == FillPrice(s, bar, side)
          closes == IsOpposite(s, side)
          qty1 == IF closes THEN qty - Min(qty, Abs(s.position)) ELSE qty
          s1 == IF closes THEN AfterClose(CloseLeg(s, bar, side, fill_price, qty), qty1) ELSE s
          s2 == IF qty1 > 0 THEN OpenLeg(s1, side, fill_price, qty1) ELSE s1
      IN  IF closes /\ qty1 <= 0 THEN s2
          ELSE [s2 EXCEPT !.has_pending = FALSE, !.last_bar_time = bar.timestamp]

\* processOrders as it would be if the quantity left after the close leg were dropped
processOrders_CloseOnly(s, bar) ==
    IF ~s.has_pending THEN s
    ELSE
      LET side == s.pending_order.side
          qty == s.pending_order.quantity
          fill_price == FillPrice(s, bar, side)
          closes == IsOpposite(s, side)
          s1 == IF closes THEN AfterClose(CloseLeg(s, bar, side, fill_price, qty), 0) ELSE s
          s2 == IF ~closes THEN OpenLeg(s1, side, fill_price, qty) ELSE s1
      IN  [s2 EXCEPT !.has_pending = FALSE, !.last_bar_time = bar.timestamp]

\* processOrders as it would be if the bar were recorded as processed even without
\* a pending order
processOrders_StampsAlways(s, bar) ==
    IF ~s.has_pending THEN [s EXCEPT !.last_bar_time = bar.timestamp]
    ELSE
      LET side == s.pending_order.side
          qty == s.pending_order.quantity
          fill_price == FillPrice(s, bar, side)
          closes == IsOpposite(s, side)
          qty1 == IF closes THEN qty - Min(qty, Abs(s.position)) ELSE qty
          s1 == IF closes THEN AfterClose(CloseLeg(s, bar, side, fill_price, qty), qty1) ELSE s
          s2 == IF qty1 > 0 THEN OpenLeg(s1, side, fill_price, qty1) ELSE s1
      IN  [s2 EXCEPT !.has_pending = FALSE, !.last_bar_time = bar.timestamp]

\* Simulator::processOrders
processOrders(s, bar) ==
    IF ~s.has_pending THEN s
    ELSE
      LET side == s.pending_order.side
          qty == s.pending_order.quantity
          fill_price == FillPrice(s, bar, side)
          closes == IsOpposite(s, side)
          qty1 == IF closes THEN qty - Min(qty, Abs(s.position)) ELSE qty
          s1 == IF closes THEN AfterClose(CloseLeg(s, bar, side, fill_price, qty), qty1) ELSE s
          s2 == IF qty1 > 0 THEN OpenLeg(s1, side, fill_price, qty1) ELSE s1
      IN  [s2 EXCEPT !.has_pending = FALSE, !.last_bar_time = bar.timestamp]

\* updateEquity as it would be if the position were valued at the bar's open
updateEquity_AtOpen(s, bar) ==
    LET eq == RAdd(s.cash, RMul(R(s.position), R(bar.open)))
    IN  [s EXCEPT !.last_close = R(bar.close),
                  !.equity = eq,
                  !.equity_curve = Append(s.equity_curve, eq),
                  !.last_bar_time = bar.timestamp]

\* Simulator::updateEquity
updateEquity(s, bar) ==
    LET eq == RAdd(s.cash, RMul(R(s.position), R(bar.close)))
    IN  [s EXCEPT !.last_close = R(bar.close),
                  !.equity = eq,
                  !.equity_curve = Append(s.equity_curve, eq),
                  !.last_bar_time = bar.timestamp]

\* Report::computeMetrics: the unrealized PnL of the open position (0 by default)
UnrealizedPnl(s) ==
    IF ~NearZero(s.position) /\ RLt(R(0), s.last_close)
    THEN RMul(R(s.position), RSub(s.last_close, s.avg_entry))
    ELSE R(0)

\* ------------------------------------------------------------------- state
VARIABLES
    sim,    \* the Simulator
    last,   \* history: the last Simulator call, its arguments, the ledger before and after
    hist,   \* history: the fill that opened the current position, the fills since,
            \* and the pending orders overwritten before a fill
    ops,    \* history: number of Simulator calls made by the direct driver
    data,           \* Backtester: the loaded bar sequence (data_.bars())
    pc,             \* Backtester::run: where the run is
    i,              \* Backtester::run: the loop index
    bar_index,      \* BacktestContext::bar_index_
    peak_equity,    \* Backtester::run: the running peak
    stopped_early,  \* Backtester::stopped_early_
    stop_reason,    \* Backtester::stop_reason_
    result,         \* what run returned: "none" while it has not returned
    placed,         \* history: when the pending order was placed, and the ledger then
    loaded,         \* history: what the load returned: "none" before it, "ok", "failed"
    log,            \* history: the calls run has made on the strategy and the ledger
    twin,           \* a second run, fed the same bars and the same strategy decisions
    unit            \* the component exercised on its own (a strategy, the ORB strategy,
                    \* the data source, the command line); NoUnit in the ledger's and
                    \* the run's specifications

simVars == <<sim, last, hist, ops>>

runVars == <<data, pc, i, bar_index, peak_equity, stopped_early, stop_reason, result, placed,
            loaded, log, twin, unit>>

vars == <<sim, last, hist, ops, data, pc, i, bar_index, peak_equity, stopped_early,
          stop_reason, result, placed, loaded, log, twin, unit>>

\* everything but the component exercised on its own
coreVars == <<sim, last, hist, ops, data, pc, i, bar_index, peak_equity, stopped_early,
              stop_reason, result, placed, loaded, log, twin>>

Call(op, side, quantity, bar, pre, post) ==
    [op |-> op, side |-> side, quantity |-> quantity, bar |-> bar, pre |-> pre, post |-> post]

NoCall(s) == Call("none", Long, 0, NoBar, s, s)

Sign(x) == IF x > 0 THEN 1 ELSE IF x < 0 THEN 0 - 1 ELSE 0

NoHist(s) == [entry |-> NoCall(s), fills |-> 0, replacing |-> 0, replaced |-> 0]

\* history bookkeeping for a placeOrder call c: a valid order that lands on a slot
\* still holding an unfilled order overwrites it
HistAfterPlace(h, c) ==
    IF c.quantity > 0 /\ c.pre.has_pending
    THEN [h EXCEPT !.replacing = Min(h.replacing + 1, 2)]
    ELSE h

\* history bookkeeping for a processOrders call c: a fill that takes the position from
\* flat, or through flat, to one side is remembered as the opening fill
HistAfterFill(h, c) ==
    IF ~c.pre.has_pending THEN h
    ELSE IF c.post.position # 0 /\ Sign(c.post.position) # Sign(c.pre.position)
         THEN [entry |-> c, fills |-> 0, replacing |-> 0, replaced |-> h.replacing]
         ELSE [h EXCEPT !.fills = Min(h.fills + 1, 2), !.replacing = 0, !.replaced = h.replacing]

\* ------------------------------------------- inputs of the direct driver
InitialCashes == {2, 10}

Commissions == {0, 1}

SlippagePcts == {0, 1}

\* quantities a caller may pass, valid or not
Quantities == (0 - 1)..MaxQty

\* bars handed to the Simulator by the direct driver: every (timestamp, open) and
\* every (timestamp, close) combination over timestamps {1, 2}, opens {0, 1, 2} and
\* closes {1, 2} occurs
SimBars == {Bar(1, 0, 1), Bar(1, 1, 2), Bar(1, 2, 1), Bar(2, 0, 2), Bar(2, 1, 1), Bar(2, 2, 2)}

NoPlacement == [during |-> "none", bar |-> 0, cash |-> R(0), position |-> 0]

\* the run state of a second Backtester built on ledger s: the ledger, the loop index,
\* the running peak, the stopped-early flag and reason
NewTwin(s) ==
    [sim |-> s, i |-> 0, peak_equity |-> s.initial_cash, stopped_early |-> FALSE,
     stop_reason |-> ""]

\* the ledger s with another value in slippage_, the member the constructor's
\* initializer list leaves out: 0 for 0.01 and 0.01 for 0
OtherSlippage(s) == [s EXCEPT !.slippage = RSub(Norm(1, 100), s.slippage)]

\* no component is exercised on its own
NoUnit == [kind |-> "none"]

\* a Backtester that is constructed and whose run has not been called
NotRunning ==
    /\ data = <<>>
    /\ pc = "start"
    /\ i = 0
    /\ bar_index = 0
    /\ peak_equity = R(0)
    /\ stopped_early = FALSE
    /\ stop_reason = ""
    /\ result = "none"
    /\ placed = NoPlacement
    /\ loaded = "none"
    /\ log = <<>>

SimInit ==
    /\ \E ic \in InitialCashes, c \in Commissions, sl \in SlippagePcts :
          sim = NewSimulator(ic, c, sl)
    /\ last = NoCall(sim)
    /\ hist = NoHist(sim)
    /\ ops = 0
    /\ NotRunning
    /\ twin = NewTwin(sim)
    /\ unit = NoUnit

SimPlaceOrder ==
    /\ ops < MaxOps
    /\ \E side \in Sides, q \in Quantities :
          /\ sim' = placeOrder(sim, side, q)
          /\ last' = Call("placeOrder", side, q, NoBar, sim, sim')
    /\ hist' = HistAfterPlace(hist, last')
    /\ ops' = ops + 1
    /\ UNCHANGED runVars

SimProcessOrders ==
    /\ ops < MaxOps
    /\ \E bar \in SimBars :
          /\ sim' = processOrders(sim, bar)
          /\ last' = Call("processOrders", Long, 0, bar, sim, sim')
    /\ hist' = HistAfterFill(hist, last')
    /\ ops' = ops + 1
    /\ UNCHANGED runVars

SimUpdateEquity ==
    /\ ops < MaxOps
    /\ \E bar \in SimBars :
          /\ sim' = updateEquity(sim, bar)
          /\ last' = Call("updateEquity", Long, 0, bar, sim, sim')
    /\ ops' = ops + 1
    /\ UNCHANGED <<hist, runVars>>

SimNext == SimPlaceOrder \/ SimProcessOrders \/ SimUpdateEquity

\* the Simulator driven directly, as the unit tests drive it
SpecSim == SimInit /\ [][SimNext]_vars

\* ------------------------------------------------------------ Backtester::run
\* the bars a load can produce (timestamps are given by Stamped): an unchanged bar,
\* a bar that closes above its open and a bar that opens higher and closes lower
RunBars == {Bar(0, 1, 1), Bar(0, 1, 2), Bar(0, 2, 1)}

\* the bar sequences a load can produce: up to MaxBars bars
BarSeqs == UNION {[1..n -> RunBars] : n \in 0..MaxBars}

\* the ledger configurations a run is constructed with: <<initial cash, commission,
\* slippage percentage>>; the cash is small against the prices, so that a position
\* can ruin the account
RunConfigs == {<<2, 0, 0>>, <<2, 1, 1>>}

\* quantities a strategy passes to ctx.placeOrder, valid or not
RunQuantities == {0, 1, 2}

\* the ctx.placeOrder calls one onBar makes: none, one, or two in a row
StrategyCalls ==
    LET args == {[side |-> sd, quantity |-> q] : sd \in Sides, q \in RunQuantities}
    IN  {<<>>} \cup {<<a>> : a \in args} \cup {<<a, b>> : a \in args, b \in args}

Stamped(seq) == [k \in 1..Len(seq) |-> Bar(k, seq[k].open, seq[k].close)]

\* data_.at(i) as it would be if the loop handed the previous bar to the ledger
CurrentBar_Previous(d, idx) == d[IF idx = 0 THEN 1 ELSE idx]

\* data_.at(i), i counted from 0
CurrentBar(d, idx) == d[idx + 1]

\* the value checked after the fill as it would be if the stored equity were read
EquityAfterFill_Stored(s, bar) == s.equity

\* the equity the loop checks right after the fill: cash + position * bar.open
EquityAfterFill(s, bar) == RAdd(s.cash, RMul(R(s.position), R(bar.open)))

\* drawdown_pct of the close-based check
DrawdownPct(peak, eq) ==
    IF RLt(R(0), peak) THEN RMul(RDiv(RSub(peak, eq), peak), R(100)) ELSE R(100)

\* one entry of the call history: the call, the loop index it was made at, the index
\* the context reported then, and the bar passed (index 0 and NoBar where none is)
Event(op, index, ctx_index, bar) ==
    [op |-> op, index |-> index, ctx_index |-> ctx_index, bar |-> bar]

\* the load's verdict as it would be if an empty bar sequence were accepted
LoadFailed_IgnoreEmpty(ok, d) == ~ok

\* the condition on which run returns false
LoadFailed(ok, d) == ~ok \/ d = <<>>

\* the loop condition as it would be if the loop stopped one bar short
MoreBars_SkipLast(d, idx) == idx + 1 < Len(d)

\* the loop condition: i < data_.size()
MoreBars(d, idx) == idx < Len(d)

\* setBarIndex as it would be if the context counted bars from 1
setBarIndex_OneBased(idx) == idx + 1

\* BacktestContext::setBarIndex: the value bar_index_ takes
setBarIndex(idx) == idx

\* the call of onEnd as it would be if run returned without making it
CallOnEnd_Missing(lg) == lg

\* strategy_->onEnd(*ctx_)
CallOnEnd(lg) == Append(lg, Event("onEnd", 0, 0, NoBar))

\* the close-based stop as it would be if only the drawdown were looked at
CloseStop_DrawdownOnly(peak, eq) ==
    IF RLe(R(100), DrawdownPct(peak, eq)) THEN "max drawdown 100%" ELSE ""

\* the close-based stop as it would be if the drawdown were tested before the equity
CloseStop_DrawdownFirst(peak, eq) ==
    IF RLe(R(100), DrawdownPct(peak, eq)) THEN "max drawdown 100%"
    ELSE IF RLe(eq, R(0)) THEN "no more equity"
    ELSE ""

\* the close-based stop as it would be if an equity of exactly 0 were let through
CloseStop_Strict(peak, eq) ==
    IF RLt(eq, R(0)) THEN "no more equity"
    ELSE IF RLe(R(100), DrawdownPct(peak, eq)) THEN "max drawdown 100%"
    ELSE ""

\* the close-based stop checks: the reason the loop stops for, "" when it goes on
CloseStop(peak, eq) ==
    IF RLe(eq, R(0)) THEN "no more equity"
    ELSE IF RLe(R(100), DrawdownPct(peak, eq)) THEN "max drawdown 100%"
    ELSE ""

Init ==
    /\ \E cfg \in RunConfigs : sim = NewSimulator(cfg[1], cfg[2], cfg[3])
    /\ last = NoCall(sim)
    /\ hist = NoHist(sim)
    /\ ops = 0
    /\ NotRunning
    /\ twin = NewTwin(OtherSlippage(sim))
    /\ unit = NoUnit

\* run, up to the return on a failed or empty load, or to the call of onStart
RunLoad ==
    /\ pc = "start"
    /\ \E ok \in BOOLEAN, seq \in BarSeqs :
         LET d == IF ok THEN Stamped(seq) ELSE <<>>
         IN  /\ data' = d
             /\ loaded' = (IF ok THEN "ok" ELSE "failed")
             /\ IF LoadFailed(ok, d)
                THEN pc' = "done" /\ result' = "false" /\ log' = log
                ELSE /\ pc' = "onStart"
                     /\ result' = result
                     /\ log' = Append(log, Event("onStart", 0, 0, NoBar))
    /\ UNCHANGED <<simVars, i, bar_index, peak_equity, stopped_early, stop_reason, placed,
                   twin, unit>>

\* onStart returns: the peak starts at the initial cash and the loop begins
OnStartReturn ==
    /\ pc = "onStart"
    /\ peak_equity' = sim.initial_cash
    /\ i' = 0
    /\ IF MoreBars(data, 0)
       THEN pc' = "loop" /\ log' = log
       ELSE pc' = "onEnd" /\ log' = CallOnEnd(log)
    /\ UNCHANGED <<simVars, data, bar_index, stopped_early, stop_reason, result, placed,
                   loaded, twin, unit>>

\* the second run's loop iteration up to the open-based ruin check, on bars d
TwinFill(t, d) ==
    IF t.stopped_early \/ ~MoreBars(d, t.i) THEN t
    ELSE LET bar == CurrentBar(d, t.i)
             s1 == processOrders(t.sim, bar)
         IN  IF RLe(EquityAfterFill(s1, bar), R(0))
             THEN [t EXCEPT !.sim = updateEquity(s1, bar),
                            !.stopped_early = TRUE,
                            !.stop_reason = "no more equity"]
             ELSE [t EXCEPT !.sim = s1]

\* top of a loop iteration: setBarIndex, processOrders, the open-based ruin check, and
\* then either the last updateEquity and the call of onEnd, or the call of onBar
LoopStep ==
    /\ pc = "loop"
    /\ LET bar == CurrentBar(data, i)
           s1 == processOrders(sim, bar)
           ctx == setBarIndex(i)
           lg == Append(log, Event("processOrders", i, ctx, bar))
       IN  /\ bar_index' = ctx
           /\ last' = Call("processOrders", Long, 0, bar, sim, s1)
           /\ hist' = HistAfterFill(hist, last')
           /\ IF RLe(EquityAfterFill(s1, bar), R(0))
              THEN /\ stopped_early' = TRUE
                   /\ stop_reason' = "no more equity"
                   /\ sim' = updateEquity(s1, bar)
                   /\ pc' = "onEnd"
                   /\ log' = CallOnEnd(Append(lg, Event("updateEquity", i, ctx, bar)))
              ELSE /\ sim' = s1
                   /\ pc' = "onBar"
                   /\ log' = Append(lg, Event("onBar", i, ctx, bar))
                   /\ UNCHANGED <<stopped_early, stop_reason>>
    /\ twin' = TwinFill(twin, data)
    /\ UNCHANGED <<ops, data, i, peak_equity, result, placed, loaded, unit>>

\* BacktestContext::placeOrder, called by the strategy: the ledger and the history
\* after the calls cs, made in order from ledger and history sh
RECURSIVE PlaceAll(_, _)
PlaceAll(sh, cs) ==
    IF cs = <<>> THEN sh
    ELSE LET c == Head(cs)
             s1 == placeOrder(sh.s, c.side, c.quantity)
             call == Call("placeOrder", c.side, c.quantity, NoBar, sh.s, s1)
         IN  PlaceAll([s |-> s1, h |-> HistAfterPlace(sh.h, call)], Tail(cs))

\* the rest of the second run's loop iteration, its strategy making the calls cs
TwinClose(t, d, cs) ==
    IF t.stopped_early \/ ~MoreBars(d, t.i) THEN t
    ELSE LET bar == CurrentBar(d, t.i)
             s0 == PlaceAll([s |-> t.sim, h |-> NoHist(t.sim)], cs).s
             s1 == updateEquity(s0, bar)
             eq == s1.equity
             peak == IF RLt(t.peak_equity, eq) THEN eq ELSE t.peak_equity
             stop == CloseStop(peak, eq)
         IN  [t EXCEPT !.sim = s1,
                       !.peak_equity = peak,
                       !.stopped_early = (stop # ""),
                       !.stop_reason = stop,
                       !.i = IF stop = "" THEN t.i + 1 ELSE t.i]

\* the rest of a loop iteration: the strategy's onBar (which may call ctx.placeOrder),
\* updateEquity, the peak, the close-based stop checks, the next index, and the call
\* of onEnd when the loop is left
OnBar ==
    /\ pc = "onBar"
    /\ \E calls \in StrategyCalls :
         LET bar == CurrentBar(data, i)
             after == PlaceAll([s |-> sim, h |-> hist], calls)
             s1 == updateEquity(after.s, bar)
             eq == s1.equity
             peak == IF RLt(peak_equity, eq) THEN eq ELSE peak_equity
             stop == CloseStop(peak, eq)
             lg == Append(log, Event("updateEquity", i, bar_index, bar))
         IN  /\ sim' = s1
             /\ hist' = after.h
             /\ placed' = (IF \E k \in 1..Len(calls) : calls[k].quantity > 0
                           THEN [during |-> "onBar", bar |-> bar_index, cash |-> sim.cash,
                                 position |-> sim.position]
                           ELSE placed)
             /\ last' = Call("updateEquity", Long, 0, bar, after.s, s1)
             /\ twin' = TwinClose(twin, data, calls)
             /\ peak_equity' = peak
             /\ IF stop # ""
                THEN /\ stopped_early' = TRUE
                     /\ stop_reason' = stop
                     /\ pc' = "onEnd"
                     /\ i' = i
                     /\ log' = CallOnEnd(lg)
                ELSE /\ i' = i + 1
                     /\ IF MoreBars(data, i + 1)
                        THEN pc' = "loop" /\ log' = lg
                        ELSE pc' = "onEnd" /\ log' = CallOnEnd(lg)
                     /\ UNCHANGED <<stopped_early, stop_reason>>
    /\ UNCHANGED <<ops, data, bar_index, result, loaded, unit>>

\* the return of run as it would be if an early stop were reported as a failure
OnEndReturn_FailsOnStop ==
    /\ pc = "onEnd"
    /\ pc' = "done"
    /\ result' = (IF stopped_early THEN "false" ELSE "true")
    /\ UNCHANGED <<simVars, data, i, bar_index, peak_equity, stopped_early, stop_reason,
                   placed, loaded, log, twin, unit>>

\* the return of onEnd as it would be if run started over instead of returning
OnEndReturn_Restarts ==
    /\ pc = "onEnd"
    /\ pc' = "onStart"
    /\ UNCHANGED <<simVars, data, i, bar_index, peak_equity, stopped_early, stop_reason,
                   result, placed, loaded, log, twin, unit>>

\* onEnd returns and run returns true
OnEndReturn ==
    /\ pc = "onEnd"
    /\ pc' = "done"
    /\ result' = "true"
    /\ UNCHANGED <<simVars, data, i, bar_index, peak_equity, stopped_early, stop_reason,
                   placed, loaded, log, twin, unit>>

Next ==
    \/ RunLoad
    \/ OnStartReturn
    \/ LoopStep
    \/ OnBar
    \/ OnEndReturn

\* one Backtester, constructed and run once with an arbitrary strategy
Spec == Init /\ [][Next]_vars

\* ------------------------------------------------- vocabulary of the claims
\* the last call was a processOrders that found a pending order
Filled == last.op = "processOrders" /\ last.pre.has_pending

FilledSide == last.pre.pending_order.side

FilledQty == last.pre.pending_order.quantity

\* the order met an opposite position: the close/reduce leg ran
ClosedLeg == Filled /\ IsOpposite(last.pre, FilledSide)

\* quantity left for the open/add leg
OpenQty == IF IsOpposite(last.pre, FilledSide)
           THEN FilledQty - Min(FilledQty, Abs(last.pre.position))
           ELSE FilledQty

\* the open/add leg ran
OpenedLeg == Filled /\ OpenQty > 0

\* the Trade appended by the last call (when one was)
NewTrade == last.post.trades[Len(last.post.trades)]

AppendedOne == /\ Len(last.post.trades) = Len(last.pre.trades) + 1
               /\ SubSeq(last.post.trades, 1, Len(last.pre.trades)) = last.pre.trades

\* the price the ledger filled the last order at
UsedFill == FillPrice(last.pre, last.bar, FilledSide)

\* signed order quantity: + for Long, - for Short
SignedQty(side, q) == IF side = Long THEN q ELSE 0 - q

\* ------------------------------------------------------------------ claims

\* C2: signed netting.  For every filled order the quantity recorded in the Trade of
\* the close leg is at most |position before the fill|, the position after the fill
\* is position_before + qty (Long) or position_before - qty (Short), and so it has
\* the sign of the dominant remaining side or is exactly 0.
C2_SignedNetting ==
    Filled =>
      LET p == last.pre.position
          q == FilledQty
          after == last.post.position
      IN  /\ after = p + SignedQty(FilledSide, q)
          /\ ClosedLeg => /\ AppendedOne
                          /\ NewTrade.quantity <= Abs(p)
                          /\ (q < Abs(p) => Sign(after) = Sign(p))
                          /\ (q = Abs(p) => after = 0)
                          /\ (q > Abs(p) => Sign(after) = Sign(SignedQty(FilledSide, q)))
          /\ ~ClosedLeg => Sign(after) = Sign(SignedQty(FilledSide, q))

\* C2 witness: an order larger than the opposite position was filled (a flip)
C2_Witness ==
    /\ ClosedLeg
    /\ FilledQty > Abs(last.pre.position)
    /\ last.post.position # 0
    /\ NewTrade.quantity = Abs(last.pre.position)

\* C3 (as claimed): in every reachable state position = 0 implies average entry = 0
C3_FlatHasNoAvgEntry == sim.position = 0 => sim.avg_entry = R(0)

\* the ledger with its pending slot emptied
ClearedSlot(s) == [s EXCEPT !.has_pending = FALSE, !.pending_order = DefaultOrder]

\* C4: single pending slot, latest wins.  A valid placeOrder leaves exactly its own
\* order pending and changes nothing else; the fill that follows is the one the
\* ledger would make had the overwritten order never been placed; a fill consumes
\* the slot, moves the position by the pending order alone and appends at most one
\* Trade.
C4_LatestWins ==
    /\ (last.op = "placeOrder" /\ last.quantity > 0) =>
          /\ sim.has_pending
          /\ sim.pending_order.side = last.side
          /\ sim.pending_order.quantity = last.quantity
          /\ sim.cash = last.pre.cash
          /\ sim.position = last.pre.position
          /\ sim.trades = last.pre.trades
          /\ \A bar \in SimBars :
                processOrders(sim, bar) =
                  processOrders(placeOrder(ClearedSlot(last.pre), last.side, last.quantity), bar)
    /\ Filled =>
          /\ ~last.post.has_pending
          /\ last.post.position = last.pre.position + SignedQty(FilledSide, FilledQty)
          /\ Len(last.post.trades) <= Len(last.pre.trades) + 1

\* C4 witness: an order that had overwritten an unfilled order was filled
C4_Witness ==
    /\ Filled
    /\ hist.replaced > 0
    /\ last.post.position # last.pre.position

\* C5: the Trade appended by a close/reduce fill: side of the closed position,
\* quantity min(order qty, |position|), entry price = average entry before the fill,
\* exit price = fill price, pnl = leg pnl - commission, pnl% = pnl/(entry*qty)*100,
\* and 0 when the entry price is 0.
C5_TradeRecord ==
    ClosedLeg =>
      LET p == last.pre.position
          cq == Min(FilledQty, Abs(p))
          avg == last.pre.avg_entry
          leg == IF p > 0 THEN RMul(RSub(UsedFill, avg), R(cq))
                 ELSE RMul(RSub(avg, UsedFill), R(cq))
          t == NewTrade
      IN  /\ AppendedOne
          /\ t.side = (IF p > 0 THEN Long ELSE Short)
          /\ t.quantity = cq
          /\ t.entry_price = avg
          /\ t.exit_price = UsedFill
          /\ t.pnl = RSub(leg, last.pre.commission)
          /\ t.pnl_pct = (IF avg = R(0) THEN R(0)
                          ELSE RMul(RDiv(t.pnl, RMul(avg, R(cq))), R(100)))

\* C5 witness: a short position was partly or wholly covered with a commission charged
C5_Witness ==
    /\ ClosedLeg
    /\ last.pre.position < 0
    /\ last.pre.commission # R(0)
    /\ NewTrade.pnl_pct # R(0)

\* the ledger was built with zero commission and zero slippage
NoCosts(s) == s.commission = R(0) /\ s.slippage = R(0)

\* C6: with zero commission and zero slippage, starting flat, filling Long q at open o
\* gives position q and cash - o*q; a Short q filled next at open o' gives position 0,
\* cash_after_entry + (o' - o)*q and exactly one Trade, with pnl (o' - o)*q.
C6_RoundTrip ==
    (Filled /\ NoCosts(last.pre)) =>
      /\ (last.pre.position = 0 /\ FilledSide = Long) =>
            /\ last.post.position = FilledQty
            /\ last.post.cash = RSub(last.pre.cash, RMul(R(last.bar.open), R(FilledQty)))
      /\ ( /\ hist.fills = 1
           /\ hist.entry.pre.position = 0
           /\ hist.entry.pre.pending_order.side = Long
           /\ FilledSide = Short
           /\ FilledQty = hist.entry.pre.pending_order.quantity ) =>
            LET gain == RMul(R(last.bar.open - hist.entry.bar.open), R(FilledQty))
            IN  /\ last.pre.position = FilledQty
                /\ last.post.position = 0
                /\ last.post.cash = RAdd(hist.entry.post.cash, gain)
                /\ Len(last.post.trades) = Len(hist.entry.pre.trades) + 1
                /\ NewTrade.pnl = gain

\* C6 witness: Long q from flat at open 1, then Short q at open 2, no costs
C6_Witness ==
    /\ Filled
    /\ NoCosts(last.pre)
    /\ hist.fills = 1
    /\ hist.entry.pre.position = 0
    /\ hist.entry.pre.pending_order.side = Long
    /\ FilledSide = Short
    /\ FilledQty = hist.entry.pre.pending_order.quantity
    /\ hist.entry.bar.open = 1
    /\ last.bar.open = 2
    /\ Len(last.post.trades) = 1

\* the ledger as the open/add leg of the last fill found it
BeforeOpenLeg ==
    IF ClosedLeg
    THEN AfterClose(CloseLeg(last.pre, last.bar, FilledSide, UsedFill, FilledQty), OpenQty)
    ELSE last.pre

\* C7 (as claimed): an open/add leg of quantity q at fill price f changes cash by
\* -f*q - commission for a Long order and by +f*q - commission for a Short order
C7_OpenLegCash ==
    OpenedLeg =>
      LET fq == RMul(UsedFill, R(OpenQty))
          moved == IF FilledSide = Long THEN RSub(R(0), fq) ELSE fq
      IN  last.post.cash = RSub(RAdd(BeforeOpenLeg.cash, moved), last.pre.commission)

\* C8 (as claimed): when one order both closes an opposite position and opens a new
\* one, cash after the call is lower by exactly 2 * commission than it would be with
\* commission = 0
C8_DoubleCommission ==
    (ClosedLeg /\ OpenedLeg) =>
      last.post.cash =
        RSub(processOrders([last.pre EXCEPT !.commission = R(0)], last.bar).cash,
             RMul(R(2), last.pre.commission))

\* the fill price the slippage rule gives: open*(1+s) for Long, open*(1-s) for Short
SlippedFill(s, bar, side) ==
    IF side = Long THEN RMul(R(bar.open), RAdd(R(1), s.slippage))
    ELSE RMul(R(bar.open), RSub(R(1), s.slippage))

\* C9 (as claimed): every Long order fills at open*(1+s) and every Short order at
\* open*(1-s), and that price is the Trade's exit price, the average entry of a
\* position opened from flat and the price cash moves by on the open leg
C9_SlippageApplied ==
    Filled =>
      LET f == SlippedFill(last.pre, last.bar, FilledSide)
      IN  /\ ClosedLeg => NewTrade.exit_price = f
          /\ (OpenedLeg /\ BeforeOpenLeg.position = 0) => last.post.avg_entry = f
          /\ (OpenedLeg /\ last.pre.commission = R(0)) =>
                last.post.cash =
                  RSub(BeforeOpenLeg.cash, RMul(f, R(SignedQty(FilledSide, OpenQty))))

\* C10: average entry on open/add.  From a flat position the average entry becomes the
\* fill price; adding q to a same-side position p makes it
\* (avg_entry*|p| + fill*q) / (|p| + q) and the position magnitude |p| + q.
C10_AvgEntryOnOpen ==
    OpenedLeg =>
      LET b == BeforeOpenLeg
          q == OpenQty
      IN  /\ b.position = 0 =>
                /\ last.post.avg_entry = UsedFill
                /\ Abs(last.post.position) = q
          /\ b.position # 0 =>
                /\ Sign(b.position) = Sign(SignedQty(FilledSide, q))
                /\ last.post.avg_entry =
                     RDiv(RAdd(RMul(b.avg_entry, R(Abs(b.position))), RMul(UsedFill, R(q))),
                          R(Abs(b.position) + q))
                /\ Abs(last.post.position) = Abs(b.position) + q

\* C10 witness: an order added to a same-side position at a different price and with
\* a different quantity, so the weighted average differs from both prices' mean
C10_Witness ==
    /\ OpenedLeg
    /\ ~ClosedLeg
    /\ last.pre.position # 0
    /\ last.pre.avg_entry # UsedFill
    /\ OpenQty # Abs(last.pre.position)

\* the prices a fill made from open o can show: o itself, or o moved by the slippage
\* fraction in the order's direction
FillsFrom(s, o, side) == {R(o), SlippedFill(s, Bar(0, o, o), side)}

\* C1: no look-ahead.  An order placed by the strategy during onBar of bar b is filled
\* by the processOrders call of bar b+1, from bar b+1's open; it is not filled on bar
\* b nor on a later bar, and cash and position do not change between the placement
\* and that fill.  (Bars are counted from 0 and data is indexed from 1: bar b+1 is
\* data[b + 2].)
C1_NoLookAhead ==
    /\ (Filled /\ placed.during = "onBar") =>
          LET next == data[placed.bar + 2]
              f == FillsFrom(last.pre, next.open, FilledSide)
          IN  /\ bar_index = placed.bar + 1
              /\ last.bar = next
              /\ ClosedLeg => NewTrade.exit_price \in f
              /\ (OpenedLeg /\ BeforeOpenLeg.position = 0) => last.post.avg_entry \in f
              /\ last.pre.cash = placed.cash
              /\ last.pre.position = placed.position
              /\ ~last.post.has_pending
    /\ (sim.has_pending /\ pc \in {"loop", "onBar"}) =>
          /\ placed.during = "onBar"
          /\ pc = "loop"
          /\ i = placed.bar + 1
          /\ sim.cash = placed.cash
          /\ sim.position = placed.position

\* C1 witness: an order placed during onBar of a bar was filled on the next bar, whose
\* open differs from the open of the bar it was placed on, with a later bar to come
C1_Witness ==
    /\ Filled
    /\ placed.during = "onBar"
    /\ bar_index = placed.bar + 1
    /\ data[placed.bar + 1].open # data[placed.bar + 2].open
    /\ last.post.position # last.pre.position
    /\ pc = "onBar"
    /\ Len(data) > bar_index + 1

\* is the sequence a the beginning of the sequence b
IsPrefix(a, b) == Len(a) <= Len(b) /\ SubSeq(b, 1, Len(a)) = a

\* the processOrders call a step of the run loop is about to make finds an order
\* whose side is opposite to a non-zero position
FillWillClose ==
    /\ pc = "loop"
    /\ sim.has_pending
    /\ \/ sim.pending_order.side = Long /\ sim.position < 0
       \/ sim.pending_order.side = Short /\ sim.position > 0

C12_SlotClearedOnFill ==
    /\ Filled =>
          /\ ~last.post.has_pending
          /\ last.post.last_bar_time = last.bar.timestamp
    /\ (last.op = "processOrders" /\ ~last.pre.has_pending) => last.post = last.pre
    /\ (last.post.has_pending /\ ~last.pre.has_pending) =>
          last.op = "placeOrder" /\ last.quantity > 0

\* C12 witness: a close-only fill (the branch that returns early), on a bar with a
\* timestamp other than the last-processed one
C12_Witness ==
    /\ ClosedLeg
    /\ OpenQty = 0
    /\ last.post.position # 0
    /\ last.bar.timestamp # last.pre.last_bar_time

\* C13: an updateEquity(bar) call sets last_close to bar.close and equity to
\* cash + position*bar.close, appends exactly that value to the equity curve, and
\* leaves cash, position, average entry, the pending order slot and the trade log as
\* they were.
C13_UpdateEquityFrame ==
    last.op = "updateEquity" =>
      LET eq == RAdd(last.pre.cash, RMul(R(last.pre.position), R(last.bar.close)))
      IN  /\ last.post.last_close = R(last.bar.close)
          /\ last.post.equity = eq
          /\ last.post.equity_curve = Append(last.pre.equity_curve, eq)
          /\ last.post.cash = last.pre.cash
          /\ last.post.position = last.pre.position
          /\ last.post.avg_entry = last.pre.avg_entry
          /\ last.post.pending_order = last.pre.pending_order
          /\ last.post.has_pending = last.pre.has_pending
          /\ last.post.trades = last.pre.trades

\* C13 witness: updateEquity on a ledger that holds a position, on a bar whose close
\* differs from its open, with a point already on the curve
C13_Witness ==
    /\ last.op = "updateEquity"
    /\ last.pre.position # 0
    /\ Len(last.pre.equity_curve) >= 1
    /\ last.bar.close # last.bar.open
    /\ last.post.equity # last.pre.equity

\* ---------------------------------------------- vocabulary of the run's claims
\* the positions in the call history of the calls of one kind
CallsOf(op) == {k \in 1..Len(log) : log[k].op = op}

\* the positions in the call history of the calls of one kind made at loop index b
CallsAt(op, b) == {k \in 1..Len(log) : log[k].op = op /\ log[k].index = b}

\* the bars the loop entered: those it called processOrders for
BarsEntered == {b \in 0..(Len(data) - 1) : CallsAt("processOrders", b) # {}}

\* cash + position*open as the ledger stood right after the last processOrders call
OpenBasedEquity == RAdd(last.post.cash, RMul(R(last.post.position), R(last.bar.open)))

\* cash + position*close of the bar with index b (counted from 0), on the ledger as
\* it stands
CloseBasedEquity(b) == RAdd(sim.cash, RMul(R(sim.position), R(data[b + 1].close)))

\* C14: one curve point per bar entered.  After a successful run every bar the loop
\* entered has exactly one updateEquity call and the curve has one point per such
\* bar: as many as there are bars when the run was not stopped early, never more.
\* Point k is the close-based equity of bar k: whenever the loop has finished with a
\* bar, the newest point is cash + position*close of that bar, and no step changes a
\* point already on the curve.
C14_CurvePerBar ==
    /\ [](result = "true" =>
            /\ \A b \in BarsEntered : Cardinality(CallsAt("updateEquity", b)) = 1
            /\ Len(sim.equity_curve) = Cardinality(BarsEntered)
            /\ Len(sim.equity_curve) <= Len(data)
            /\ (~stopped_early => Len(sim.equity_curve) = Len(data)))
    /\ []((pc \in {"loop", "onEnd", "done"} /\ sim.equity_curve # <<>>) =>
            LET n == Len(sim.equity_curve)
            IN  /\ n <= Len(data)
                /\ sim.equity_curve[n] = CloseBasedEquity(n - 1))
    /\ [][IsPrefix(sim.equity_curve, sim'.equity_curve)]_vars

\* C14 witness: a run of three bars stopped on its second bar returned with two
\* different points on the curve
C14_Witness ==
    /\ result = "true"
    /\ stopped_early
    /\ Len(data) = 3
    /\ Len(sim.equity_curve) = 2
    /\ sim.equity_curve[1] # sim.equity_curve[2]

\* C15: the immediate-ruin check.  Right after the processOrders call of a bar, if
\* cash + position*bar.open <= 0 the run is stopped early with reason "no more
\* equity", updateEquity has been called exactly once for that bar, onBar has not been
\* called for it, and the loop is over (the call after updateEquity is onEnd);
\* otherwise onBar is called for the bar.  The value checked is the open-based one,
\* whatever the stored equity is.
C15_ImmediateRuin ==
    last.op = "processOrders" =>
      LET b == bar_index
          n == Len(log)
      IN  IF RLe(OpenBasedEquity, R(0))
          THEN /\ stopped_early
               /\ stop_reason = "no more equity"
               /\ pc \in {"onEnd", "done"}
               /\ Cardinality(CallsAt("updateEquity", b)) = 1
               /\ CallsAt("onBar", b) = {}
               /\ log[n].op = "onEnd"
               /\ log[n - 1].op = "updateEquity" /\ log[n - 1].index = b
               /\ log[n - 2].op = "processOrders" /\ log[n - 2].index = b
          ELSE /\ pc = "onBar"
               /\ ~stopped_early
               /\ log[n].op = "onBar" /\ log[n].index = b
               /\ CallsAt("updateEquity", b) = {}

\* C15 witness: a run stopped by the open-based check while the stored equity (that
\* of the previous close) was still positive
C15_Witness ==
    /\ last.op = "processOrders"
    /\ RLe(OpenBasedEquity, R(0))
    /\ RLt(R(0), last.post.equity)
    /\ pc = "done"
    /\ stopped_early

\* equity has been driven to 0 or below: a curve point, or the open-based value right
\* after a processOrders call
DrivenToZero ==
    \/ \E k \in 1..Len(sim.equity_curve) : RLe(sim.equity_curve[k], R(0))
    \/ last.op = "processOrders" /\ RLe(OpenBasedEquity, R(0))

\* C16: the circuit breaker.  Once equity has been driven to <= 0 at a bar, the run is
\* stopped early with reason "no more equity" and is past its loop; every curve point
\* before the newest is positive; the newest point is that bar's; the loop index has
\* not moved on; and no processOrders, onBar or updateEquity call has been made for a
\* later bar: the call history ends with that bar's updateEquity and onEnd.
C16_CircuitBreaker ==
    DrivenToZero =>
      LET n == Len(log)
      IN  /\ stopped_early
          /\ stop_reason = "no more equity"
          /\ pc \in {"onEnd", "done"}
          /\ pc = "done" => result = "true"
          /\ \A k \in 1..(Len(sim.equity_curve) - 1) : RLt(R(0), sim.equity_curve[k])
          /\ Len(sim.equity_curve) = bar_index + 1
          /\ i = bar_index
          /\ \A k \in 1..n : log[k].index <= bar_index
          /\ log[n].op = "onEnd"
          /\ log[n - 1].op = "updateEquity" /\ log[n - 1].index = bar_index

\* C16 witness: a run of three bars returned after the close-based equity of its
\* second bar came out <= 0, with an order left pending that no bar filled
C16_Witness ==
    /\ pc = "done"
    /\ result = "true"
    /\ Len(data) = 3
    /\ Len(sim.equity_curve) = 2
    /\ RLe(sim.equity_curve[2], R(0))
    /\ sim.has_pending

\* C17: the close-based stop.  The peak starts at the initial cash.  On a bar that
\* passed the open-based check, with eq the equity updateEquity leaves, the peak
\* becomes max(peak, eq), drawdown% is (peak - eq)/peak*100 (100 when peak <= 0), and
\* the loop stops at that bar with reason "no more equity" when eq <= 0, with reason
\* "max drawdown 100%" when drawdown% >= 100, and in no other case: then the run is
\* not marked stopped and goes on to the next bar, or leaves the loop after the last.
C17_CloseBasedStop ==
    [][ /\ pc = "onStart" => peak_equity' = sim.initial_cash
        /\ pc = "onBar" =>
             LET eq == sim'.equity
                 peak == IF RLt(peak_equity, eq) THEN eq ELSE peak_equity
                 dd == IF RLt(R(0), peak)
                       THEN RMul(RDiv(RSub(peak, eq), peak), R(100))
                       ELSE R(100)
             IN  /\ eq = RAdd(sim'.cash, RMul(R(sim'.position), R(data[i + 1].close)))
                 /\ peak_equity' = peak
                 /\ IF RLe(eq, R(0))
                    THEN stopped_early' /\ stop_reason' = "no more equity"
                         /\ pc' = "onEnd" /\ i' = i
                    ELSE IF RLe(R(100), dd)
                    THEN stopped_early' /\ stop_reason' = "max drawdown 100%"
                         /\ pc' = "onEnd" /\ i' = i
                    ELSE /\ ~stopped_early'
                         /\ stop_reason' = ""
                         /\ i' = i + 1
                         /\ pc' = (IF i + 1 < Len(data) THEN "loop" ELSE "onEnd") ]_vars

\* C17 witness: a bar passed the open-based check with a positive stored equity and
\* the close-based check then stopped the loop on an equity of exactly 0
C17_Witness ==
    /\ last.op = "updateEquity"
    /\ stopped_early
    /\ pc = "onEnd"
    /\ last.post.equity = R(0)
    /\ RLt(R(0), last.pre.equity)
    /\ peak_equity = sim.initial_cash

\* C18: the strategy's lifecycle.  In a run whose data loaded, onStart is the first
\* call made and is made once, before any processOrders or onBar call; onEnd is made
\* at most once and nothing is called after it; it has not been made while the loop
\* runs and has been made once when the loop is left, at the natural end and after
\* either circuit breaker alike.
C18_Lifecycle ==
    /\ Cardinality(CallsOf("onStart")) <= 1
    /\ Cardinality(CallsOf("onEnd")) <= 1
    /\ (loaded = "ok" /\ data # <<>>) => (log # <<>> /\ log[1].op = "onStart")
    /\ \A k \in CallsOf("processOrders") \cup CallsOf("onBar") : CallsOf("onStart") = {1} /\ k > 1
    /\ \A k \in CallsOf("onEnd") : k = Len(log)
    /\ pc \in {"onStart", "loop", "onBar"} => CallsOf("onEnd") = {}
    /\ (pc \in {"onEnd", "done"} /\ result # "false") =>
          /\ CallsOf("onStart") = {1}
          /\ CallsOf("onEnd") = {Len(log)}
          /\ log[Len(log) - 1].op = "updateEquity"
          /\ log[Len(log) - 1].index = bar_index

\* C18 witness: a run stopped early by the open-based check has returned
C18_Witness ==
    /\ result = "true"
    /\ stopped_early
    /\ last.op = "processOrders"
    /\ Cardinality(CallsOf("onEnd")) = 1
    /\ Len(log) > 4

\* the onBar calls of the call history, in the order made
OnBarCalls == SelectSeq(log, LAMBDA e : e.op = "onBar")

\* C19: onBar once per bar, in order.  The k-th onBar call (k = 0, 1, ...) is made at
\* loop index k with the context reporting barIndex k and with the bar
\* ctx.bars()[barIndex]; while the strategy is in onBar the context index is the loop
\* index; barIndex never exceeds the loop index; a run that was not stopped has
\* called onBar for every bar, and a stopped run for every bar before the one that
\* stopped it, and for that one too when the stop came from the close-based checks.
C19_OnBarInOrder ==
    /\ \A k \in 1..Len(OnBarCalls) :
          /\ OnBarCalls[k].index = k - 1
          /\ OnBarCalls[k].ctx_index = k - 1
          /\ OnBarCalls[k].ctx_index < Len(data)
          /\ OnBarCalls[k].bar = data[OnBarCalls[k].ctx_index + 1]
    /\ bar_index <= i
    /\ pc = "onBar" => (bar_index = i /\ Len(OnBarCalls) = i + 1)
    /\ (result = "true" /\ ~stopped_early) => Len(OnBarCalls) = Len(data)
    /\ (result = "true" /\ stopped_early) =>
          Len(OnBarCalls) = (IF last.op = "updateEquity" THEN bar_index + 1 ELSE bar_index)

\* C19 witness: the strategy is in onBar of the third bar, after two bars that differ
C19_Witness ==
    /\ pc = "onBar"
    /\ Len(OnBarCalls) = 3
    /\ bar_index = 2
    /\ data[1].close # data[2].close

C21_EarlyStopIsSuccess ==
    (pc \in {"onEnd", "done"} /\ data # <<>>) =>
      /\ pc = "done" => result = "true"
      /\ IF i < Len(data)
         THEN /\ stopped_early
              /\ stop_reason \in {"no more equity", "max drawdown 100%"}
         ELSE /\ ~stopped_early
              /\ stop_reason = ""
      /\ sim.trades = last.post.trades
      /\ IsPrefix(last.post.equity_curve, sim.equity_curve)
      /\ Len(sim.equity_curve) = Cardinality(CallsOf("updateEquity"))

\* C21 witness: a run that recorded a Trade and two curve points before a circuit
\* breaker stopped it has returned
C21_Witness ==
    /\ pc = "done"
    /\ result = "true"
    /\ stopped_early
    /\ Len(sim.trades) >= 1
    /\ Len(sim.equity_curve) >= 2

\* C22: a placeOrder call with quantity <= 0 leaves the whole ledger as it was, a
\* valid order already pending included, so the next processOrders call fills that
\* order as if the call had not been made.
C22_InvalidQuantityIgnored ==
    (last.op = "placeOrder" /\ last.quantity <= 0) =>
      /\ last.post = last.pre
      /\ sim = last.pre
      /\ last.pre.has_pending =>
            /\ sim.has_pending
            /\ sim.pending_order = last.pre.pending_order
            /\ sim.pending_order.quantity > 0

\* C22 witness: placeOrder with a negative quantity on a ledger that holds a position
\* and a valid pending order
C22_Witness ==
    /\ last.op = "placeOrder"
    /\ last.quantity < 0
    /\ last.pre.has_pending
    /\ last.pre.position # 0

\* the second run is where the first is: same ledger (but for the slippage member,
\* which differs between the two from the start), same loop position, peak, flag
\* and reason
TwinAgrees ==
    /\ OtherSlippage(twin.sim) = sim
    /\ twin.stopped_early = stopped_early
    /\ twin.stop_reason = stop_reason
    /\ pc \in {"loop", "onBar"} => (twin.i = i /\ twin.peak_equity = peak_equity)

ResetAvgEntry(s) == [s EXCEPT !.avg_entry = R(0)]

\* C24: the average entry is not read while the position is 0.  A fill appends a
\* Trade (the close leg, which reads the average entry) only when the position before
\* it is non-zero.  On a flat ledger the report's unrealized PnL is 0, and a flat
\* ledger whose average entry is not 0 is treated by processOrders, on any bar, and
\* by the report exactly as the same ledger with average entry 0: same cash,
\* position, trades, equity and average entry afterwards when an order was filled.
\* With a position and a positive last close the unrealized PnL is
\* position * (last close - average entry).
C24_AvgEntryUnreadWhenFlat ==
    /\ (Filled /\ Len(last.post.trades) > Len(last.pre.trades)) => last.pre.position # 0
    /\ sim.position = 0 =>
          /\ UnrealizedPnl(sim) = R(0)
          /\ sim.avg_entry # R(0) =>
                /\ UnrealizedPnl(ResetAvgEntry(sim)) = R(0)
                /\ \A bar \in RunBars :
                      LET a == processOrders(sim, bar)
                          b == processOrders(ResetAvgEntry(sim), bar)
                      IN  /\ ResetAvgEntry(a) = ResetAvgEntry(b)
                          /\ sim.has_pending => a.avg_entry = b.avg_entry
    /\ (sim.position # 0 /\ RLt(R(0), sim.last_close)) =>
          UnrealizedPnl(sim) = RMul(R(sim.position), RSub(sim.last_close, sim.avg_entry))

\* C24 witness: a flat ledger that still carries the average entry of the position it
\* closed, with a last close recorded and an order waiting to open a new position
C24_Witness ==
    /\ sim.position = 0
    /\ sim.avg_entry # R(0)
    /\ sim.has_pending
    /\ RLt(R(0), sim.last_close)
    /\ Len(sim.trades) = 1

\* C25 (as claimed): whenever the strategy is in onBar, ctx.equity() equals
\* ctx.cash() + ctx.position() * ctx.lastClose()
C25_ContextEquityIdentity ==
    pc = "onBar" => sim.equity = RAdd(sim.cash, RMul(R(sim.position), sim.last_close))

\* where a run can be
RunPcs == {"start", "onStart", "loop", "onBar", "onEnd", "done"}

\* control moves on: the run is somewhere else than it was
ControlMoves == pc # "done" /\ pc' \in RunPcs \ {pc}

\* the run with callbacks that return: run is sequential code, so until it has
\* returned its control keeps moving (every step of Next moves it)
SpecLive == Spec /\ WF_pc(ControlMoves)

\* ------------------------------------------------------------------------------------
\* Components exercised on their own.  The ledger and the run stay idle while one of
\* them is driven; unit holds its state.
\* ------------------------------------------------------------------------------------

\* the ledger and the run before anything is called on them
CoreIdle ==
    /\ sim = NewSimulator(2, 0, 0)
    /\ last = NoCall(sim)
    /\ hist = NoHist(sim)
    /\ ops = 0
    /\ NotRunning
    /\ twin = NewTwin(sim)

\* ---- the bundled strategies: the indices of ctx.bars() one onBar call reads ---------

\* std::size_t arithmetic wraps modulo 2^64; the model keeps the wrap with a modulus
\* scaled to the checker's integers, far above every index and period used here
SizeModulus == 65536

\* static_cast<std::size_t>(x), and the result of a std::size_t expression
SizeT(x) == x % SizeModulus

\* SmaCrossoverStrategy::sma without its guard
SmaCrossover_sma_Unguarded(end_index, period) ==
    {SizeT(end_index - 1 - k) : k \in 0..(period - 1)}

\* SmaCrossoverStrategy::sma: the indices bars[end_index - 1 - i], i = 0..period-1
SmaCrossover_sma(end_index, period) ==
    IF period <= 0 \/ end_index < SizeT(period)
    THEN {}
    ELSE {SizeT(end_index - 1 - k) : k \in 0..(period - 1)}

\* SmaCrossoverStrategy::onBar: both averages are computed before the price check
SmaCrossover_onBar(barIndex, fast_period, slow_period) ==
    LET n == SizeT(barIndex + 1)
    IN  IF n < SizeT(slow_period)
        THEN {}
        ELSE SmaCrossover_sma(n, fast_period) \cup SmaCrossover_sma(n, slow_period)

\* the sma of the CTM strategy
Ctm_sma(end_index, period) ==
    IF period <= 0 \/ end_index < SizeT(period)
    THEN {}
    ELSE {SizeT(end_index - 1 - k) : k \in 0..(period - 1)}

\* the largest element of a non-empty set of integers
MaxOf(S) == CHOOSE x \in S : \A y \in S : y <= x

\* CtmStrategy::onBar: periods = <<long_fast, long_medium, long_slow, short_fast,
\* short_medium, short_slow>>; price_positive is bar.close > 0
Ctm_onBar(barIndex, periods, price_positive) ==
    LET n          == SizeT(barIndex + 1)
        max_period == MaxOf({periods[k] : k \in 1..6})
    IN  IF ~price_positive THEN {}
        ELSE IF n < SizeT(max_period) THEN {}
        ELSE UNION {Ctm_sma(n, periods[k]) : k \in 1..6}

\* the paths of OnePointOhStrategy::onBar that the bars' values and the strategy's
\* position select: it returns before the entry logic (close <= 0, an exit, or a
\* position held), it looks for an entry and finds none, or it finds a long or a
\* short signal
OnePointOhPaths == {"return", "no signal", "signal"}

\* OnePointOhStrategy::onBar
OnePointOh_onBar(idx, lookback, stop_lookback, path) ==
    LET start == IF idx >= SizeT(stop_lookback) THEN SizeT(idx - SizeT(stop_lookback)) ELSE 0
    IN  IF path = "return" THEN {}
        ELSE IF idx < SizeT(lookback) THEN {}
        ELSE IF idx < 1 THEN {}
        ELSE {SizeT(idx - 1)}
             \cup {SizeT(idx - lookback + 1 + SizeT(k)) : k \in 0..(lookback - 1)}
             \cup (IF path = "signal" THEN {k \in 0..idx : start <= k /\ k < idx} ELSE {})

\* the period and lookback parameters tried: negative, zero, within the bars, beyond
Periods == (0 - 1)..(MaxBars + 1)

\* the six CTM periods are drawn from a smaller set
CtmPeriods == {0 - 1, 0, 1, MaxBars}

\* a strategy before its first onBar
NewStrategy(name, params) ==
    [kind |-> "strategy", name |-> name, params |-> params,
     next |-> 0, called |-> FALSE, index |-> 0, reads |-> {}]

\* the strategy after onBar at bar index unit.next, which read the indices rs
OnBarCalled(u, rs) ==
    [u EXCEPT !.called = TRUE, !.index = u.next, !.reads = rs, !.next = u.next + 1]

StrategiesInit ==
    /\ CoreIdle
    /\ unit \in {NewStrategy("SmaCrossover", <<f, s>>) : f \in Periods, s \in Periods}
          \cup {NewStrategy("Ctm", ps) : ps \in [1..6 -> CtmPeriods]}
          \cup {NewStrategy("OnePointOh", <<l, sl>>) : l \in Periods, sl \in Periods}

\* the backtester calls onBar with barIndex = unit.next while bars remain
StrategyDue(name) ==
    /\ unit.kind = "strategy"
    /\ unit.name = name
    /\ unit.next < MaxBars

SmaCrossoverOnBar ==
    /\ StrategyDue("SmaCrossover")
    /\ unit' = OnBarCalled(unit, SmaCrossover_onBar(unit.next, unit.params[1], unit.params[2]))
    /\ UNCHANGED coreVars

CtmOnBar ==
    /\ StrategyDue("Ctm")
    /\ \E price_positive \in BOOLEAN :
          unit' = OnBarCalled(unit, Ctm_onBar(unit.next, unit.params, price_positive))
    /\ UNCHANGED coreVars

\* a signal needs a fitted line with a non-zero slope, that is at least two points
OnePointOhOnBar ==
    /\ StrategyDue("OnePointOh")
    /\ \E path \in OnePointOhPaths :
          /\ path = "signal" => unit.params[1] >= 2
          /\ unit' = OnBarCalled(unit, OnePointOh_onBar(unit.next, unit.params[1],
                                                        unit.params[2], path))
    /\ UNCHANGED coreVars

StrategiesNext == SmaCrossoverOnBar \/ CtmOnBar \/ OnePointOhOnBar

SpecStrategies == StrategiesInit /\ [][StrategiesNext]_vars

\* C26: every index of ctx.bars() that an onBar call of a bundled strategy reads lies
\* in [0, ctx.barIndex()]: none has wrapped below zero and none is ahead of the
\* current bar, whatever the periods and lookbacks
C26_StrategiesReadNoFutureBar ==
    (unit.kind = "strategy" /\ unit.called) =>
        \A r \in unit.reads : 0 <= r /\ r <= unit.index

\* C26 witness: an onBar call on the last bar that read every bar up to its own
C26_Witness ==
    /\ unit.kind = "strategy"
    /\ unit.called
    /\ unit.index = MaxBars - 1
    /\ unit.reads = 0..unit.index

\* ---- the ORB strategy, run bar by bar against a ledger -------------------------------

\* the calendar days in the bar file
MaxDays == 2

\* the bars of a day sit at 09:30, 09:45 and 10:00
SlotTimes == <<(<<9, 30>>), (<<9, 45>>), (<<10, 0>>)>>

\* the price levels of the bars; a bar trades at one level
OrbLevels == 1..3

\* a timestamp "<date> <hh>:<mm>" is <<date, hh, mm>>, a date-only timestamp is <<date>>
OrbTimestamp(date, slot, timed) ==
    IF timed THEN <<date, SlotTimes[slot][1], SlotTimes[slot][2]>> ELSE <<date>>

\* a bar with high and low, the fields the ORB strategy reads beside the close
OrbBar(t, level) ==
    [timestamp |-> t, open |-> level, high |-> level, low |-> level, close |-> level]

\* barDate: the part of the timestamp before the time; 0 stands for the empty string
barDate(timestamp) == IF Len(timestamp) >= 1 THEN timestamp[1] ELSE 0

\* barTime as it would be if it never found a time in the timestamp
barTime_DateOnly(timestamp) == [has_time |-> FALSE, hour |-> 0, minute |-> 0]

\* barTime: hour and minute of the timestamp, has_time false when it carries none
barTime(timestamp) ==
    IF Len(timestamp) >= 3
    THEN [has_time |-> TRUE, hour |-> timestamp[2], minute |-> timestamp[3]]
    ELSE [has_time |-> FALSE, hour |-> 0, minute |-> 0]

\* OrbParams; position_equity_pct is the rational 15/100
OrbParams(exit_at_eod) ==
    [position_equity_pct |-> Norm(15, 100), exit_at_eod |-> exit_at_eod,
     session_start_hour |-> 9, session_start_minute |-> 30]

\* std::floor of a rational
RFloor(a) == a[1] \div a[2]

\* OrbStrategy::onStart: the members of the strategy; the date 0 is the empty string
OrbStrategy_onStart ==
    [current_date |-> 0, orb_bar_index |-> 0 - 1, orb_high |-> 0, orb_low |-> 0,
     triggered_this_day |-> FALSE, stop_price |-> 0]

\* the entry quantity: floor(equity / price * position_equity_pct), at least 1
OrbUnits(p, s, price) ==
    LET units == RFloor(RMul(RDiv(s.equity, R(price)), p.position_equity_pct))
    IN  IF units < 1 THEN 1 ELSE units

\* OrbStrategy::onBar on the ledger s: the members and the ledger after the call, and
\* whether the call placed the exit order of the new-day branch
OrbStrategy_onBar(p, st, bar, s) ==
    LET date    == barDate(bar.timestamp)
        pos     == s.position
        price   == bar.close
        new_day == date # st.current_date
        exits   == new_day /\ pos # 0
        s1      == IF exits
                   THEN placeOrder(s, IF pos > 0 THEN Short ELSE Long, Abs(pos))
                   ELSE s
        st1     == IF new_day
                   THEN [current_date |-> date, orb_bar_index |-> 0 - 1, orb_high |-> 0,
                         orb_low |-> 0, triggered_this_day |-> FALSE, stop_price |-> 0]
                   ELSE st
        t       == barTime(bar.timestamp)
        is_session_start ==
            IF t.has_time
            THEN t.hour = p.session_start_hour /\ t.minute = p.session_start_minute
            ELSE TRUE
    IN  IF date = 0 \/ price <= 0 THEN [st |-> st, sim |-> s, eod_exit |-> FALSE]
        ELSE IF st1.orb_bar_index = 0 - 1
        THEN [st |-> IF is_session_start
                     THEN [st1 EXCEPT !.orb_high = bar.high, !.orb_low = bar.low,
                                      !.orb_bar_index = 1]
                     ELSE st1,
              sim |-> s1, eod_exit |-> exits]
        ELSE IF st1.orb_bar_index = 1
        THEN IF ~st1.triggered_this_day /\ pos = 0 /\ bar.close > st1.orb_high
             THEN [st |-> [st1 EXCEPT !.stop_price = st1.orb_low,
                                      !.triggered_this_day = TRUE, !.orb_bar_index = 2],
                   sim |-> placeOrder(s1, Long, OrbUnits(p, s1, price)),
                   eod_exit |-> exits]
             ELSE IF ~st1.triggered_this_day /\ pos = 0 /\ bar.close < st1.orb_low
             THEN [st |-> [st1 EXCEPT !.stop_price = st1.orb_high,
                                      !.triggered_this_day = TRUE, !.orb_bar_index = 2],
                   sim |-> placeOrder(s1, Short, OrbUnits(p, s1, price)),
                   eod_exit |-> exits]
             ELSE [st |-> [st1 EXCEPT !.orb_bar_index = 2], sim |-> s1, eod_exit |-> exits]
        ELSE IF st1.stop_price # 0 /\ pos > 0 /\ bar.low <= st1.stop_price
        THEN [st |-> [st1 EXCEPT !.stop_price = 0],
              sim |-> placeOrder(s1, Short, pos), eod_exit |-> exits]
        ELSE IF st1.stop_price # 0 /\ pos < 0 /\ bar.high >= st1.stop_price
        THEN [st |-> [st1 EXCEPT !.stop_price = 0],
              sim |-> placeOrder(s1, Long, 0 - pos), eod_exit |-> exits]
        ELSE [st |-> st1, sim |-> s1, eod_exit |-> exits]

\* the timestamps that may follow the bar at <<date, slot>>: later the same day, or on
\* the next day
LaterBars(clock) ==
    {<<clock[1], s>> : s \in (clock[2] + 1)..Len(SlotTimes)}
        \cup (IF clock[1] < MaxDays
              THEN {<<clock[1] + 1, s>> : s \in 1..Len(SlotTimes)}
              ELSE {})

\* an order on the side opposite to the position it was placed against
ReducesPosition(ord) ==
    \/ ord.position > 0 /\ ord.side = Short
    \/ ord.position < 0 /\ ord.side = Long

\* what processOrders did on a bar: the quantity and side of the order it filled
\* (quantity 0: none was pending), and the position before and after
Fill(quantity, side, was, now) ==
    [quantity |-> quantity, side |-> side, was |-> was, now |-> now]

FillOf(s0, s1) ==
    Fill(IF s0.has_pending THEN s0.pending_order.quantity ELSE 0, s0.pending_order.side,
         s0.position, s1.position)

NoFill == Fill(0, Long, 0, 0)

\* no ctx.placeOrder call
NoOrbOrder == [placed |-> FALSE, side |-> Long, quantity |-> 0, position |-> 0]

\* a backtester over a bar file for the ORB strategy, after onStart: clock is the
\* place of the last bar read, opened_on the date of the bar whose fill opened the
\* position held (0 when flat).  day_bars counts the bars read on the date of the last
\* bar, start_ord is the place among them of that date's session-start bar (0 before
\* it) and start_level its price level; order is the ctx.placeOrder call of the last
\* onBar with the position it saw, entries the orders placed on this date that do not
\* reduce the position, and stop_exits the stop exits placed since the last such order
NewOrbRun(exit_at_eod, timed) ==
    [kind |-> "orb", p |-> OrbParams(exit_at_eod), timed |-> timed,
     st |-> OrbStrategy_onStart, sim |-> NewSimulator(10, 0, 0),
     peak_equity |-> R(10), phase |-> "loop", clock |-> <<1, 0>>, bar |-> NoBar,
     opened_on |-> 0, eod_exit |-> FALSE,
     day_bars |-> 0, start_ord |-> 0, start_level |-> 0, order |-> NoOrbOrder,
     entries |-> 0, stop_exits |-> 0, fill |-> NoFill]

OrbInit ==
    /\ CoreIdle
    /\ unit \in {NewOrbRun(e, t) : e \in BOOLEAN, t \in BOOLEAN}

\* Backtester::run for the next bar of the file, up to the call of onBar
OrbLoopStep ==
    /\ unit.kind = "orb"
    /\ unit.phase = "loop"
    /\ \E c \in LaterBars(unit.clock), level \in OrbLevels :
          LET bar == OrbBar(OrbTimestamp(c[1], c[2], unit.timed), level)
              s1  == processOrders(unit.sim, bar)
              on  == IF s1.position = 0 THEN 0
                     ELSE IF unit.sim.position = 0 THEN barDate(bar.timestamp)
                     ELSE unit.opened_on
              same_day == c[1] = unit.clock[1]
              n   == IF same_day THEN unit.day_bars + 1 ELSE 1
              is_start == IF unit.timed
                          THEN /\ SlotTimes[c[2]][1] = unit.p.session_start_hour
                               /\ SlotTimes[c[2]][2] = unit.p.session_start_minute
                          ELSE n = 1
              u   == [unit EXCEPT !.bar = bar, !.clock = c, !.opened_on = on,
                                  !.day_bars = n,
                                  !.start_ord = IF is_start THEN n
                                                ELSE IF same_day THEN @ ELSE 0,
                                  !.start_level = IF is_start THEN level
                                                  ELSE IF same_day THEN @ ELSE 0,
                                  !.entries = IF same_day THEN @ ELSE 0,
                                  !.order = NoOrbOrder,
                                  !.fill = FillOf(unit.sim, s1)]
          IN  unit' = IF RLe(EquityAfterFill(s1, bar), R(0))
                      THEN [u EXCEPT !.sim = updateEquity(s1, bar), !.phase = "done"]
                      ELSE [u EXCEPT !.sim = s1, !.phase = "onBar"]
    /\ UNCHANGED coreVars

\* Backtester::run from the call of onBar to the end of the iteration
OrbOnBar ==
    /\ unit.kind = "orb"
    /\ unit.phase = "onBar"
    /\ LET r    == OrbStrategy_onBar(unit.p, unit.st, unit.bar, unit.sim)
           s1   == updateEquity(r.sim, unit.bar)
           peak == IF RLt(unit.peak_equity, s1.equity) THEN s1.equity ELSE unit.peak_equity
           pos  == unit.sim.position
           ord  == IF r.sim.has_pending
                   THEN [placed |-> TRUE, side |-> r.sim.pending_order.side,
                         quantity |-> r.sim.pending_order.quantity, position |-> pos]
                   ELSE NoOrbOrder
           entry == ord.placed /\ ~ReducesPosition(ord)
       IN  unit' = [unit EXCEPT !.st = r.st, !.sim = s1, !.peak_equity = peak,
                                !.eod_exit = r.eod_exit,
                                !.order = ord,
                                !.entries = IF entry THEN @ + 1 ELSE @,
                                !.stop_exits = IF entry THEN 0
                                               ELSE IF ord.placed /\ unit.day_bars > 1
                                                    THEN @ + 1 ELSE @,
                                !.phase = IF CloseStop(peak, s1.equity) # ""
                                          THEN "done" ELSE "loop"]
    /\ UNCHANGED coreVars

OrbNext == OrbLoopStep \/ OrbOnBar

SpecOrb == OrbInit /\ [][OrbNext]_vars

\* C27 (as claimed): with exit_at_eod a position is held only on bars of the date on
\* which it was opened, and without exit_at_eod the strategy places no end-of-day
\* exit order
C27_OrbClosesAtEndOfDay ==
    unit.kind = "orb" =>
        /\ (unit.p.exit_at_eod /\ unit.sim.position # 0) =>
              barDate(unit.bar.timestamp) = unit.opened_on
        /\ ~unit.p.exit_at_eod => ~unit.eod_exit

\* ---- the data source: DataSource::load and DataSource::aggregateBars ----------------

\* the data rows of a file
MaxRows == 2

\* the smallest element of a non-empty set of integers
MinOf(S) == CHOOSE x \in S : \A y \in S : x <= y

\* a word of a header line or of an option: its letters in lower case, and whether the
\* text writes some of them as capitals
Word(text, caps) == [text |-> text, caps |-> caps]

\* toLower
toLower(w) == [w EXCEPT !.caps = FALSE]

\* the fields of a line, as split and trim leave them: a number, a text that is no
\* number, or a timestamp of day date at hour:minute written in format fmt:
\* "hms" is YYYY-MM-DDTHH:MM:SS, "hm" is YYYY-MM-DDTHH:MM, "date" is YYYY-MM-DD and
\* "short" is a text of fewer than ten characters
Num(v) == <<"number", v>>

Text == <<"text">>

Stamp(date, hour, minute, fmt) == <<"stamp", date, hour, minute, fmt>>

\* the year of every date used here
YearOfDates == 2024

\* std::stod: the number a field starts with; it throws when the field starts with none
stod(f) ==
    IF f[1] = "number" THEN [ok |-> TRUE, v |-> f[2]]
    ELSE IF f[1] = "stamp" /\ f[5] # "short" THEN [ok |-> TRUE, v |-> YearOfDates]
    ELSE [ok |-> FALSE, v |-> 0]

\* the names findColumn is asked for
DateNames == <<"timestamp", "date", "datetime", "time">>

OpenNames == <<"open", "o">>

HighNames == <<"high", "h">>

LowNames == <<"low", "l">>

CloseNames == <<"close", "c">>

VolumeNames == <<"volume", "vol", "v">>

\* findColumn: the 0-based index of the first header that equals, in lower case, the
\* first of the names that occurs at all; -1 when none occurs
findColumn(headers, names) ==
    LET at(n)  == {k \in 1..Len(headers) : toLower(headers[k]) = Word(names[n], FALSE)}
        found  == {n \in 1..Len(names) : at(n) # {}}
    IN  IF found = {} THEN 0 - 1 ELSE MinOf(at(MinOf(found))) - 1

\* a Bar of the data source
DataBar(t, o, h, l, c, v) ==
    [timestamp |-> t, open |-> o, high |-> h, low |-> l, close |-> c, volume |-> v]

\* what an out-of-range parts[i] may hold: any text
StrayFields == {Num(0), Text}

\* DataSource::parseLine: the outcomes of parsing one line.  parts[i] is read without
\* a check of i against parts.size() for the five required columns; when i is out of
\* range the read is undefined: the call may crash, or go on with any text
parseLine(parts, headers) ==
    LET iDate  == findColumn(headers, DateNames)
        iOpen  == findColumn(headers, OpenNames)
        iHigh  == findColumn(headers, HighNames)
        iLow   == findColumn(headers, LowNames)
        iClose == findColumn(headers, CloseNames)
        iVol   == findColumn(headers, VolumeNames)
        InRange(k) == k < Len(parts)
        Parsed(stray) ==
            LET at(k) == IF InRange(k) THEN parts[k + 1] ELSE stray
                o == stod(at(iOpen))
                h == stod(at(iHigh))
                l == stod(at(iLow))
                c == stod(at(iClose))
                v == IF iVol >= 0 /\ InRange(iVol) THEN stod(parts[iVol + 1])
                     ELSE [ok |-> TRUE, v |-> 0]
            IN  IF o.ok /\ h.ok /\ l.ok /\ c.ok /\ v.ok
                THEN [kind |-> "bar", bar |-> DataBar(at(iDate), o.v, h.v, l.v, c.v, v.v)]
                ELSE [kind |-> "nullopt", bar |-> NoBar]
    IN  IF Len(parts) < 5 THEN {[kind |-> "nullopt", bar |-> NoBar]}
        ELSE IF \A k \in {iDate, iOpen, iHigh, iLow, iClose} : InRange(k)
        THEN {Parsed(Text)}
        ELSE {[kind |-> "crash", bar |-> NoBar]} \cup {Parsed(f) : f \in StrayFields}

\* the while loop of load over the data lines: every way it can go
RECURSIVE ParseLines(_, _)
ParseLines(lines, headers) ==
    IF lines = <<>> THEN {[crashed |-> FALSE, bars |-> <<>>]}
    ELSE LET rest == ParseLines(Tail(lines), headers)
             Step(first) ==
                 IF first.kind = "crash" THEN {[crashed |-> TRUE, bars |-> <<>>]}
                 ELSE IF first.kind = "nullopt" THEN rest
                 ELSE {[crashed |-> r.crashed, bars |-> <<first.bar>> \o r.bars] : r \in rest}
         IN  UNION {Step(first) : first \in parseLine(Head(lines), headers)}

\* DataSource::load on a file: exists says whether it can be opened, lines are its
\* lines, the header line first.  The outcomes: it returns ok with bars, or crashes.
load(file) ==
    IF ~file.exists \/ file.lines = <<>>
    THEN {[crashed |-> FALSE, ok |-> FALSE, bars |-> <<>>]}
    ELSE LET headers == [k \in 1..Len(file.lines[1]) |-> toLower(file.lines[1][k])]
         IN  IF \E names \in {DateNames, OpenNames, HighNames, LowNames, CloseNames} :
                    findColumn(headers, names) < 0
             THEN {[crashed |-> FALSE, ok |-> FALSE, bars |-> <<>>]}
             ELSE {[crashed |-> r.crashed, ok |-> ~r.crashed, bars |-> r.bars] :
                      r \in ParseLines(Tail(file.lines), headers)}

\* parseTimestamp: the minute is read only when the time has a second colon
parseTimestamp(ts) ==
    IF ts[1] # "stamp" \/ ts[5] = "short"
    THEN [ok |-> FALSE, date |-> 0, hour |-> 0, minute |-> 0]
    ELSE IF ts[5] = "hms" THEN [ok |-> TRUE, date |-> ts[2], hour |-> ts[3], minute |-> ts[4]]
    ELSE IF ts[5] = "hm" THEN [ok |-> TRUE, date |-> ts[2], hour |-> ts[3], minute |-> 0]
    ELSE [ok |-> TRUE, date |-> ts[2], hour |-> 0, minute |-> 0]

\* periodKey: "YYYY-MM-DDTHH:MM" of the start of the period
periodKey(date, hour, minute, intervalMinutes) ==
    Stamp(date, hour,
          IF intervalMinutes >= 60 THEN 0
          ELSE (minute \div intervalMinutes) * intervalMinutes,
          "hm")

\* the order of the strings of two period keys
KeyLess(a, b) ==
    \/ a[2] < b[2]
    \/ a[2] = b[2] /\ a[3] < b[3]
    \/ a[2] = b[2] /\ a[3] = b[3] /\ a[4] < b[4]

\* the bars of a std::map keyed by period key, in the order of the keys
RECURSIVE InKeyOrder(_)
InKeyOrder(S) ==
    IF S = {} THEN <<>>
    ELSE LET first == CHOOSE b \in S : \A c \in S : c = b \/ KeyLess(b.timestamp, c.timestamp)
         IN  <<first>> \o InKeyOrder(S \ {first})

\* the loop of aggregateBars: keyToBar after the bars, as the set of its values
RECURSIVE KeyToBar(_, _, _)
KeyToBar(bars, intervalMinutes, acc) ==
    IF bars = <<>> THEN acc
    ELSE LET b   == Head(bars)
             t   == parseTimestamp(b.timestamp)
             key == periodKey(t.date, t.hour, t.minute, intervalMinutes)
             old == {a \in acc : a.timestamp = key}
             agg == CHOOSE a \in old : TRUE
         IN  IF ~t.ok THEN KeyToBar(Tail(bars), intervalMinutes, acc)
             ELSE IF old = {}
             THEN KeyToBar(Tail(bars), intervalMinutes,
                           acc \cup {[b EXCEPT !.timestamp = key]})
             ELSE KeyToBar(Tail(bars), intervalMinutes,
                           (acc \ old) \cup
                           {[agg EXCEPT !.high = IF b.high > agg.high THEN b.high ELSE agg.high,
                                        !.low = IF b.low < agg.low THEN b.low ELSE agg.low,
                                        !.close = b.close,
                                        !.volume = agg.volume + b.volume]})

\* DataSource::aggregateBars: bars_ after the call
aggregateBars(bars, resolution) ==
    LET r == toLower(resolution)
        intervalMinutes == IF r.text = "15m" THEN 15
                           ELSE IF r.text = "1h" \/ r.text = "1hr" THEN 60
                           ELSE 0
    IN  IF r.text = "1m" \/ r.text = "" THEN bars
        ELSE IF intervalMinutes = 0 THEN bars
        ELSE InKeyOrder(KeyToBar(bars, intervalMinutes, {}))

\* the header lines tried: the five columns, with a volume column, under their short
\* names in capitals, without a close column, and behind a leading symbol column
HeaderLines ==
    { <<Word("timestamp", FALSE), Word("open", FALSE), Word("high", FALSE),
        Word("low", FALSE), Word("close", FALSE)>>,
      <<Word("timestamp", FALSE), Word("open", FALSE), Word("high", FALSE),
        Word("low", FALSE), Word("close", FALSE), Word("volume", FALSE)>>,
      <<Word("date", TRUE), Word("o", TRUE), Word("h", TRUE), Word("l", TRUE),
        Word("c", TRUE)>>,
      <<Word("timestamp", FALSE), Word("open", FALSE), Word("high", FALSE),
        Word("low", FALSE), Word("volume", FALSE)>>,
      <<Word("symbol", FALSE), Word("timestamp", FALSE), Word("open", FALSE),
        Word("high", FALSE), Word("low", FALSE), Word("close", FALSE)>> }

\* what the rows tried hold: a bar, and how the line is written: whole, with a text
\* for the open, or cut after its fourth or fifth field
RowContents ==
    { [bar |-> DataBar(Stamp(1, 9, 30, "hms"), 1, 2, 1, 2, 1), as |-> "whole"],
      [bar |-> DataBar(Stamp(1, 9, 50, "hms"), 2, 3, 2, 3, 2), as |-> "whole"],
      [bar |-> DataBar(Stamp(1, 10, 5, "hms"), 3, 3, 1, 1, 1), as |-> "whole"],
      [bar |-> DataBar(Stamp(1, 9, 30, "hm"), 2, 3, 2, 3, 1), as |-> "whole"],
      [bar |-> DataBar(Stamp(1, 9, 50, "hm"), 1, 2, 1, 2, 2), as |-> "whole"],
      [bar |-> DataBar(Stamp(1, 9, 30, "hms"), 1, 2, 1, 2, 1), as |-> "text"],
      [bar |-> DataBar(Stamp(1, 9, 50, "hms"), 2, 3, 2, 3, 2), as |-> "cut4"],
      [bar |-> DataBar(Stamp(1, 10, 5, "hms"), 3, 3, 1, 1, 1), as |-> "cut5"] }

\* the line of a row under a header line: one field per column
RowLine(row, header) ==
    LET field(w) ==
            IF w.text \in {"timestamp", "date"} THEN row.bar.timestamp
            ELSE IF w.text \in {"open", "o"}
                 THEN (IF row.as = "text" THEN Text ELSE Num(row.bar.open))
            ELSE IF w.text \in {"high", "h"} THEN Num(row.bar.high)
            ELSE IF w.text \in {"low", "l"} THEN Num(row.bar.low)
            ELSE IF w.text \in {"close", "c"} THEN Num(row.bar.close)
            ELSE IF w.text = "volume" THEN Num(row.bar.volume)
            ELSE Text
        whole == [k \in 1..Len(header) |-> field(header[k])]
    IN  IF row.as = "cut4" THEN SubSeq(whole, 1, 4)
        ELSE IF row.as = "cut5" THEN SubSeq(whole, 1, 5)
        ELSE whole

\* the sequences of at most n rows
RowSeqs(n) == UNION {[1..k -> RowContents] : k \in 0..n}

\* the files tried: one that cannot be opened, an empty one, and a header line
\* followed by rows
DataFiles ==
    {[exists |-> FALSE, lines |-> <<>>, rows |-> <<>>],
     [exists |-> TRUE, lines |-> <<>>, rows |-> <<>>]}
        \cup {[exists |-> TRUE,
               lines |-> <<h>> \o [k \in 1..Len(rs) |-> RowLine(rs[k], h)],
               rows |-> rs] : h \in HeaderLines, rs \in RowSeqs(MaxRows)}

\* the resolutions tried
Resolutions ==
    {Word("1m", FALSE), Word("", FALSE), Word("15m", FALSE), Word("15m", TRUE),
     Word("1h", FALSE), Word("1hr", FALSE), Word("5m", FALSE)}

\* DataSource::DataSource: nothing is read; loaded keeps bars_ as load left them
NewDataSource(file) ==
    [kind |-> "data", file |-> file, phase |-> "new", ok |-> FALSE, bars |-> <<>>,
     loaded |-> <<>>, resolution |-> Word("", FALSE)]

DataInit ==
    /\ CoreIdle
    /\ unit \in {NewDataSource(f) : f \in DataFiles}

DataLoad ==
    /\ unit.kind = "data"
    /\ unit.phase = "new"
    /\ \E r \in load(unit.file) :
          unit' = [unit EXCEPT !.phase = IF r.crashed THEN "crashed" ELSE "loaded",
                               !.ok = r.ok, !.bars = r.bars, !.loaded = r.bars]
    /\ UNCHANGED coreVars

DataAggregateBars ==
    /\ unit.kind = "data"
    /\ unit.phase = "loaded"
    /\ \E res \in Resolutions :
          unit' = [unit EXCEPT !.phase = "aggregated", !.resolution = res,
                               !.bars = aggregateBars(unit.bars, res)]
    /\ UNCHANGED coreVars

DataNext == DataLoad \/ DataAggregateBars

SpecData == DataInit /\ [][DataNext]_vars

\* the start of the period of n minutes that holds a timestamp, as <<date, hour, minute>>
FlooredTo(ts, n) == <<ts[2], ts[3], IF n >= 60 THEN 0 ELSE (ts[4] \div n) * n>>

\* the order of two period starts
PeriodLess(a, b) ==
    \/ a[1] < b[1]
    \/ a[1] = b[1] /\ a[2] < b[2]
    \/ a[1] = b[1] /\ a[2] = b[2] /\ a[3] < b[3]

RECURSIVE SumOfVolumes(_)
SumOfVolumes(bars) ==
    IF bars = <<>> THEN 0 ELSE Head(bars).volume + SumOfVolumes(Tail(bars))

\* out is the aggregation of the bars in to periods of n minutes: one bar per period
\* that holds a bar of in, in the order of the periods, with the open of the period's
\* first bar, its highest high, its lowest low, the close of its last bar and the sum
\* of its volumes, under strictly ascending timestamps
IsAggregationOf(out, in, n) ==
    LET Periods_ == {FlooredTo(in[k].timestamp, n) : k \in 1..Len(in)}
        Rank(g)  == 1 + Cardinality({h \in Periods_ : PeriodLess(h, g)})
    IN  /\ Len(out) = Cardinality(Periods_)
        /\ \A g \in Periods_ :
              LET InPeriod(b) == FlooredTo(b.timestamp, n) = g
                  members == SelectSeq(in, InPeriod)
                  agg == out[Rank(g)]
              IN  /\ agg.open = members[1].open
                  /\ agg.high = MaxOf({members[k].high : k \in 1..Len(members)})
                  /\ agg.low = MinOf({members[k].low : k \in 1..Len(members)})
                  /\ agg.close = members[Len(members)].close
                  /\ agg.volume = SumOfVolumes(members)
        /\ \A k \in 1..(Len(out) - 1) : KeyLess(out[k].timestamp, out[k + 1].timestamp)

\* C28 (as claimed): aggregateBars("15m") and aggregateBars("1h") leave the
\* aggregation of the loaded bars to periods of 15 and 60 minutes, each bar in the
\* period its timestamp falls in; "1m", the empty and an unknown resolution leave the
\* bars as they were
C28_AggregateBars ==
    (unit.kind = "data" /\ unit.phase = "aggregated") =>
        /\ unit.resolution = Word("15m", FALSE) => IsAggregationOf(unit.bars, unit.loaded, 15)
        /\ unit.resolution = Word("1h", FALSE) => IsAggregationOf(unit.bars, unit.loaded, 60)
        /\ unit.resolution \in {Word("1m", FALSE), Word("", FALSE), Word("5m", FALSE)} =>
              unit.bars = unit.loaded

\* does the header line name a column by one of the names, whatever the case
HasColumn(header, names) == findColumn(header, names) >= 0

\* the field a line holds for a column; Text when the line ends before it
FieldOf(line, header, names) ==
    LET k == findColumn(header, names)
    IN  IF k >= 0 /\ k < Len(line) THEN line[k + 1] ELSE Text

\* a data row can be parsed when it holds a number for each of open, high, low and
\* close and a timestamp, and a number for the volume if it holds one
RowParses(line, header) ==
    /\ FieldOf(line, header, DateNames)[1] = "stamp"
    /\ \A names \in {OpenNames, HighNames, LowNames, CloseNames} :
          FieldOf(line, header, names)[1] = "number"
    /\ findColumn(header, VolumeNames) \in 0..(Len(line) - 1) =>
          FieldOf(line, header, VolumeNames)[1] = "number"

\* the bar with the values of a row that can be parsed
BarOfRow(line, header) ==
    DataBar(FieldOf(line, header, DateNames),
            FieldOf(line, header, OpenNames)[2], FieldOf(line, header, HighNames)[2],
            FieldOf(line, header, LowNames)[2], FieldOf(line, header, CloseNames)[2],
            IF FieldOf(line, header, VolumeNames)[1] = "number"
            THEN FieldOf(line, header, VolumeNames)[2] ELSE 0)

RECURSIVE BarsOfRows(_, _)
BarsOfRows(lines, header) ==
    IF lines = <<>> THEN <<>>
    ELSE (IF RowParses(Head(lines), header) THEN <<BarOfRow(Head(lines), header)>> ELSE <<>>)
             \o BarsOfRows(Tail(lines), header)

\* C29 (as claimed): load returns; it returns false and leaves no bars when the file
\* cannot be opened, has no header line or lacks one of the five columns; otherwise
\* it returns true and leaves, in file order, the bars of the rows that can be parsed
C29_LoadResult ==
    (unit.kind = "data" /\ unit.phase # "new") =>
        /\ unit.phase # "crashed"
        /\ IF \/ ~unit.file.exists
              \/ unit.file.lines = <<>>
              \/ \E names \in {DateNames, OpenNames, HighNames, LowNames, CloseNames} :
                    ~HasColumn(unit.file.lines[1], names)
           THEN ~unit.ok /\ unit.loaded = <<>>
           ELSE unit.ok /\ unit.loaded = BarsOfRows(Tail(unit.file.lines), unit.file.lines[1])

\* ---- the command line: parseArgs and runSingle ----------------------------------------

\* an option name on the command line
Flag(name) == <<"flag", name>>

\* parseDouble: the value of a word that is a number
parseDouble(word) == stod(word)

\* Config as constructed: the members that reach the ledger.  Cash is in the units of
\* the model's prices.
DefaultConfig == [initial_cash |-> 10, commission |-> 0, bar_resolution |-> Word("1m", FALSE)]

\* parseArgs from word k of argv on: the options it knows are handled, every other
\* word is passed over
RECURSIVE parseArgs(_, _, _)
parseArgs(argv, k, cfg) ==
    IF k > Len(argv) THEN [ok |-> TRUE, cfg |-> cfg]
    ELSE LET arg == argv[k]
             has_next == k + 1 <= Len(argv)
             value == IF has_next THEN parseDouble(argv[k + 1]) ELSE [ok |-> FALSE, v |-> 0]
         IN  IF arg = Flag("--cash")
             THEN IF ~value.ok THEN [ok |-> FALSE, cfg |-> cfg]
                  ELSE parseArgs(argv, k + 2, [cfg EXCEPT !.initial_cash = value.v])
             ELSE IF arg = Flag("--commission")
             THEN IF ~value.ok THEN [ok |-> FALSE, cfg |-> cfg]
                  ELSE parseArgs(argv, k + 2, [cfg EXCEPT !.commission = value.v])
             ELSE IF arg = Flag("--15m")
             THEN parseArgs(argv, k + 1, [cfg EXCEPT !.bar_resolution = Word("15m", FALSE)])
             ELSE parseArgs(argv, k + 1, cfg)

\* validateConfig, for the members kept
validateConfig(cfg) == cfg.initial_cash >= 0 /\ cfg.commission >= 0

\* the command lines tried: each option absent or present with a value; slippage
\* values are percentages (1 stands for the fraction 0.01)
CashArgs == {<<>>, <<Flag("--cash"), Num(2)>>, <<Flag("--cash"), Text>>, <<Flag("--cash")>>}

CommissionArgs == {<<>>, <<Flag("--commission"), Num(1)>>}

SlippageArgs == {<<>>, <<Flag("--slippage"), Num(0)>>, <<Flag("--slippage"), Num(1)>>}

BarArgs == {<<>>, <<Flag("--15m")>>}

CommandLines ==
    {b \o c \o s \o a : b \in BarArgs, c \in CommissionArgs, s \in SlippageArgs, a \in CashArgs}

\* the program started on a command line
NewCli(argv) ==
    [kind |-> "cli", argv |-> argv, phase |-> "main", cfg |-> DefaultConfig,
     sim |-> NewSimulator(0, 0, 0), bar |-> NoBar, side |-> Long, fill_price |-> R(0)]

CliInit ==
    /\ CoreIdle
    /\ unit \in {NewCli(argv) : argv \in CommandLines}

\* main: parseArgs and validateConfig
CliParseArgs ==
    /\ unit.kind = "cli"
    /\ unit.phase = "main"
    /\ LET r == parseArgs(unit.argv, 1, DefaultConfig)
       IN  unit' = [unit EXCEPT !.cfg = r.cfg,
                                !.phase = IF r.ok /\ validateConfig(r.cfg)
                                          THEN "configured" ELSE "usage error"]
    /\ UNCHANGED coreVars

\* runSingle: the Backtester, and with it the ledger, is constructed from the cash
\* and the commission of the Config; the constructor of the ledger leaves the
\* slippage member unset
CliRunSingle ==
    /\ unit.kind = "cli"
    /\ unit.phase = "configured"
    /\ \E sl \in SlippagePcts :
          unit' = [unit EXCEPT !.sim = NewSimulator(unit.cfg.initial_cash,
                                                    unit.cfg.commission, sl),
                               !.phase = "running"]
    /\ UNCHANGED coreVars

\* the run: the strategy places an order and the ledger fills it on the next bar
CliFill ==
    /\ unit.kind = "cli"
    /\ unit.phase = "running"
    /\ \E side \in Sides, bar \in RunBars :
          LET s1 == placeOrder(unit.sim, side, 1)
          IN  unit' = [unit EXCEPT !.sim = processOrders(s1, bar), !.bar = bar,
                                   !.side = side,
                                   !.fill_price = FillPrice(s1, bar, side),
                                   !.phase = "filled"]
    /\ UNCHANGED coreVars

CliNext == CliParseArgs \/ CliRunSingle \/ CliFill

SpecCli == CliInit /\ [][CliNext]_vars

\* the fraction asked for on a command line: the value after --slippage, 0 without it
RequestedSlippage(argv) ==
    IF \E k \in 1..(Len(argv) - 1) : argv[k] = Flag("--slippage")
    THEN LET k == CHOOSE j \in 1..(Len(argv) - 1) : argv[j] = Flag("--slippage")
         IN  Norm(argv[k + 1][2], 100)
    ELSE R(0)

\* C30 (as claimed): the value of --slippage is the slippage fraction of the ledger of
\* the run (0 without the option), and a long fills at open * (1 + slippage), a short
\* at open * (1 - slippage)
C30_SlippageOption ==
    (unit.kind = "cli" /\ unit.phase = "filled") =>
        LET f == RequestedSlippage(unit.argv)
        IN  /\ unit.sim.slippage = f
            /\ unit.fill_price =
                  IF unit.side = Long THEN RMul(R(unit.bar.open), RAdd(R(1), f))
                  ELSE RMul(R(unit.bar.open), RSub(R(1), f))

\* ------------------------------------------------------------------------------------
\* The ledger and the run again
\* ------------------------------------------------------------------------------------

\* C31: same-bar flip.  An order opposite to a position p # 0 with quantity q > |p| is
\* filled by one processOrders call: exactly one Trade of quantity |p| is appended,
\* with the previous average entry as its entry price; the position ends on the
\* order's side with magnitude q - |p| and the average entry is the fill price.
C31_SameBarFlip ==
    (ClosedLeg /\ FilledQty > Abs(last.pre.position)) =>
      /\ AppendedOne
      /\ NewTrade.quantity = Abs(last.pre.position)
      /\ NewTrade.entry_price = last.pre.avg_entry
      /\ last.post.position = SignedQty(FilledSide, FilledQty - Abs(last.pre.position))
      /\ last.post.avg_entry = R(last.bar.open)
      /\ ~last.post.has_pending

\* C31 witness: a short position was flipped to a long one at a price other than its
\* average entry
C31_Witness ==
    /\ ClosedLeg
    /\ last.pre.position < 0
    /\ FilledQty > Abs(last.pre.position)
    /\ last.post.position > 0
    /\ last.pre.avg_entry # R(last.bar.open)
    /\ last.post.avg_entry = R(last.bar.open)

\* C32: partial close.  An order opposite to a position p # 0 with quantity q < |p|
\* shrinks the magnitude of the position by q and keeps its sign, leaves the average
\* entry as it was, appends exactly one Trade of quantity q, and changes cash by
\* the pnl of the leg less the commission and by nothing else (no open leg).
C32_PartialClose ==
    (ClosedLeg /\ FilledQty < Abs(last.pre.position)) =>
      LET p   == last.pre.position
          q   == FilledQty
          f   == R(last.bar.open)
          leg == IF p > 0 THEN RMul(RSub(f, last.pre.avg_entry), R(q))
                 ELSE RMul(RSub(last.pre.avg_entry, f), R(q))
      IN  /\ Abs(last.post.position) = Abs(p) - q
          /\ Sign(last.post.position) = Sign(p)
          /\ last.post.avg_entry = last.pre.avg_entry
          /\ AppendedOne
          /\ NewTrade.quantity = q
          /\ last.post.cash = RAdd(last.pre.cash, RSub(leg, last.pre.commission))

\* C32 witness: part of a long position was sold at a gain, with a commission charged
C32_Witness ==
    /\ ClosedLeg
    /\ last.pre.position > FilledQty
    /\ last.post.position > 0
    /\ last.pre.commission # R(0)
    /\ RLt(last.pre.avg_entry, R(last.bar.open))

\* C33: processOrders without a pending order changes nothing: cash, position,
\* average entry, equity, last close, trade log, equity curve and last-processed
\* time are as before the call, whatever the bar.
C33_NoPendingNoOp ==
    (last.op = "processOrders" /\ ~last.pre.has_pending) =>
      /\ last.post.cash = last.pre.cash
      /\ last.post.position = last.pre.position
      /\ last.post.avg_entry = last.pre.avg_entry
      /\ last.post.equity = last.pre.equity
      /\ last.post.last_close = last.pre.last_close
      /\ last.post.trades = last.pre.trades
      /\ last.post.equity_curve = last.pre.equity_curve
      /\ last.post.last_bar_time = last.pre.last_bar_time
      /\ ~last.post.has_pending

\* C33 witness: processOrders was called with no order pending on a ledger that holds
\* a position, for a bar with another timestamp than the last one processed
C33_Witness ==
    /\ last.op = "processOrders"
    /\ ~last.pre.has_pending
    /\ last.pre.position # 0
    /\ last.bar.timestamp # last.pre.last_bar_time
    /\ last.bar.open # 0

\* the run is in its loop or in onStart (Running), or has left the loop (Completed or
\* StoppedEarly: onEnd is being called or run has returned)
Running == pc \in {"onStart", "loop", "onBar"}

Finished == pc \in {"onEnd", "done"} /\ result # "false"

\* C34: termination.  A run over a loaded, non-empty bar sequence finishes: it returns
\* true with onEnd called, Completed (no early stop) or StoppedEarly; it never makes
\* more loop iterations than there are bars; and once it has left the loop it does
\* not go back to Running.
C34_Termination ==
    /\ Running ~> (pc = "done" /\ result = "true" /\ Cardinality(CallsOf("onEnd")) = 1)
    /\ [](Cardinality(CallsOf("processOrders")) <= Len(data) /\ i <= Len(data))
    /\ [][Finished => Finished']_vars
    /\ [][pc = "done" => pc' = "done"]_vars

\* C34 witness: a run over the longest bar sequence has gone through every bar and
\* returned
C34_Witness ==
    /\ pc = "done"
    /\ result = "true"
    /\ ~stopped_early
    /\ Len(data) = MaxBars
    /\ Cardinality(CallsOf("processOrders")) = MaxBars
    /\ Cardinality(CallsOf("onEnd")) = 1

\* peaks and equities around zero, in halves
MoneyGrid == {Norm(n, d) : n \in (0 - 3)..3, d \in 1..2}

\* C35: under exact arithmetic "max drawdown 100%" is never the recorded stop reason:
\* every early stop records "no more equity".  At the close-based check a drawdown of
\* 100% or more comes with an equity of 0 or less, which is tested first; this holds
\* for a positive peak and for a peak of 0 or less, the peak being at least the equity.
C35_NoDrawdownReason ==
    /\ stop_reason \in {"", "no more equity"}
    /\ stopped_early => stop_reason = "no more equity"
    /\ last.op = "updateEquity" =>
          (RLe(R(100), DrawdownPct(peak_equity, sim.equity)) => RLe(sim.equity, R(0)))
    /\ \A peak \in MoneyGrid, eq \in MoneyGrid :
          RLe(eq, peak) =>
             /\ RLe(R(100), DrawdownPct(peak, eq)) => RLe(eq, R(0))
             /\ CloseStop(peak, eq) # "max drawdown 100%"

\* C35 witness: the close-based check stopped a run whose drawdown had reached 100%,
\* and the run returned
C35_Witness ==
    /\ pc = "done"
    /\ stopped_early
    /\ stop_reason = "no more equity"
    /\ last.op = "updateEquity"
    /\ RLe(R(100), DrawdownPct(peak_equity, sim.equity))

\* the sum of the pnl of the trades of a trade log
RECURSIVE SumOfPnl(_)
SumOfPnl(trades) ==
    IF trades = <<>> THEN R(0) ELSE RAdd(Head(trades).pnl, SumOfPnl(Tail(trades)))

\* C36 (as claimed): with zero commission and zero slippage, the equity that
\* updateEquity records while the position is 0 equals cash, and equals the initial
\* cash plus the sum of the pnl of all recorded trades
C36_FlatEquityIsRealizedPnl ==
    (last.op = "updateEquity" /\ NoCosts(sim) /\ sim.position = 0) =>
        /\ sim.equity = sim.cash
        /\ sim.equity = RAdd(sim.initial_cash, SumOfPnl(sim.trades))

\* ---- a run that holds a position over several bars ---------------------------------

\* the bars of a run long enough to hold a position between two fills
MaxHold == 4

\* the opening (and closing) prices of those bars
HoldPrices == {1, 2}

\* the ctx.placeOrder call one onBar of the run's strategy makes, if any
HoldCalls ==
    {<<>>} \cup {<<[side |-> sd, quantity |-> q]>> : sd \in Sides, q \in 1..MaxQty}

\* a backtester after onStart, over a file of n bars with timestamps 1..n: i is the
\* loop index, opened_at the timestamp of the bar whose open opened the position held
\* (0 when flat), and times the opening and closing timestamps of the positions
\* closed so far, one entry per trade
NewHoldRun(n) ==
    [kind |-> "hold", n |-> n, sim |-> NewSimulator(10, 0, 0), peak_equity |-> R(10),
     phase |-> "loop", i |-> 0, bar |-> NoBar, opened_at |-> 0, times |-> <<>>]

HoldInit ==
    /\ CoreIdle
    /\ unit \in {NewHoldRun(n) : n \in 1..MaxHold}

\* Backtester::run for bar i of the file, up to the call of onBar
HoldLoopStep ==
    /\ unit.kind = "hold"
    /\ unit.phase = "loop"
    /\ unit.i < unit.n
    /\ \E price \in HoldPrices :
          LET bar == Bar(unit.i + 1, price, price)
              s0  == unit.sim
              s1  == processOrders(s0, bar)
              closed == Len(s1.trades) > Len(s0.trades)
              on  == IF s1.position = 0 THEN 0
                     ELSE IF s0.position = 0 \/ (s0.position > 0) # (s1.position > 0)
                          THEN bar.timestamp
                     ELSE unit.opened_at
              tm  == IF closed
                     THEN Append(unit.times, [entry |-> unit.opened_at,
                                              exit |-> bar.timestamp])
                     ELSE unit.times
          IN  unit' = IF RLe(EquityAfterFill(s1, bar), R(0))
                      THEN [unit EXCEPT !.sim = updateEquity(s1, bar), !.bar = bar,
                                        !.opened_at = on, !.times = tm, !.phase = "done"]
                      ELSE [unit EXCEPT !.sim = s1, !.bar = bar, !.opened_at = on,
                                        !.times = tm, !.phase = "onBar"]
    /\ UNCHANGED coreVars

\* Backtester::run from the call of onBar to the end of the iteration
HoldOnBar ==
    /\ unit.kind = "hold"
    /\ unit.phase = "onBar"
    /\ \E calls \in HoldCalls :
          LET s0   == PlaceAll([s |-> unit.sim, h |-> NoHist(unit.sim)], calls).s
              s1   == updateEquity(s0, unit.bar)
              peak == IF RLt(unit.peak_equity, s1.equity) THEN s1.equity
                      ELSE unit.peak_equity
          IN  unit' = [unit EXCEPT !.sim = s1, !.peak_equity = peak,
                                   !.i = IF CloseStop(peak, s1.equity) # "" THEN @ ELSE @ + 1,
                                   !.phase = IF CloseStop(peak, s1.equity) # ""
                                             THEN "done" ELSE "loop"]
    /\ UNCHANGED coreVars

HoldNext == HoldLoopStep \/ HoldOnBar

SpecHold == HoldInit /\ [][HoldNext]_vars

\* C37 (as claimed): in a run, the exit_time of every trade is the timestamp of the bar
\* whose open filled the closing order, and its entry_time is the timestamp of the bar
\* whose open opened the closed position, however many bars lie between the two fills
C37_TradeTimes ==
    unit.kind = "hold" =>
        /\ Len(unit.sim.trades) = Len(unit.times)
        /\ \A k \in 1..Len(unit.sim.trades) :
              /\ unit.sim.trades[k].exit_time = unit.times[k].exit
              /\ unit.sim.trades[k].entry_time = unit.times[k].entry

\* ---- the orders of the bundled strategies -------------------------------------------

\* the last order of the ORB run closes the whole position on a bar that reached the
\* stop: the low of the date's session-start bar for a long, its high for a short
OrbStopExit ==
    /\ ReducesPosition(unit.order)
    /\ unit.order.quantity = Abs(unit.order.position)
    /\ unit.order.position > 0 => unit.bar.low <= unit.start_level
    /\ unit.order.position < 0 => unit.bar.high >= unit.start_level

\* C38: the ORB strategy places at most one entry order per date, only on the bar right
\* after that date's session-start bar and only while flat; on the later bars of the
\* date it places only stop-loss exits, and at most one stop exit per entry
C38_OrbOrders ==
    unit.kind = "orb" =>
        /\ unit.entries <= 1
        /\ (unit.order.placed /\ ~ReducesPosition(unit.order)) =>
              /\ unit.order.position = 0
              /\ unit.start_ord # 0
              /\ unit.day_bars = unit.start_ord + 1
        /\ (unit.order.placed /\ unit.start_ord # 0 /\ unit.day_bars > unit.start_ord + 1) =>
              OrbStopExit
        /\ unit.stop_exits <= 1

\* C38 witness: on the second date, after an entry on the bar that followed the
\* session-start bar, a later bar of the date reached the stop and the exit was placed
C38_Witness ==
    /\ unit.kind = "orb"
    /\ unit.clock[1] = MaxDays
    /\ unit.entries = 1
    /\ unit.stop_exits = 1
    /\ unit.order.placed
    /\ unit.day_bars > unit.start_ord + 1
    /\ OrbStopExit

\* ---- the bundled strategies, run bar by bar against a ledger ------------------------

\* INT_MAX, scaled down to the narrowest int the language allows
IntMax == 32767

\* static_cast<int>(x) for an integral x: x when int can hold it; otherwise the
\* behaviour is undefined, and builds produce the saturated value, the most negative
\* int, or x wrapped into the range
IntCasts(x) ==
    IF 0 - IntMax - 1 <= x /\ x <= IntMax THEN {x}
    ELSE {IntMax, 0 - IntMax - 1,
          ((x + IntMax + 1) % (2 * (IntMax + 1))) - (IntMax + 1)}

\* floor(equity / price * fraction), at least 1: the entry size of SMA crossover and CTM
EntryUnits(s, price, fraction) ==
    LET units == RMul(RDiv(s.equity, R(price)), fraction)
    IN  IF RLt(units, R(1)) THEN 1 ELSE RFloor(units)

\* the outcomes of comparing the fast with the slow average, "none" when there are
\* too few bars for the slow one
SmaSignals == {"none", "below", "equal", "above"}

\* SmaCrossoverStrategy::onBar: the ctx.placeOrder calls it may make on ledger s
\* when the averages compare as cmp
SmaCrossover_orders(s, bar, position_size, cmp) ==
    LET pos == s.position
    IN  IF cmp = "none" \/ bar.close <= 0 THEN {<<>>}
        ELSE IF pos > 0 /\ cmp = "below"
        THEN {<<[side |-> Short, quantity |-> q]>> : q \in IntCasts(pos)}
        ELSE IF pos < 0 /\ cmp = "above"
        THEN {<<[side |-> Long, quantity |-> q]>> : q \in IntCasts(0 - pos)}
        ELSE IF pos # 0 THEN {<<>>}
        ELSE IF cmp = "above"
        THEN {<<[side |-> Long, quantity |-> EntryUnits(s, bar.close, position_size)]>>}
        ELSE IF cmp = "below"
        THEN {<<[side |-> Short, quantity |-> EntryUnits(s, bar.close, position_size)]>>}
        ELSE {<<>>}

\* the crossings CtmStrategy::onBar computes from the bars and its parameters
CtmSignals ==
    [close_long : BOOLEAN, close_short : BOOLEAN, enter_long : BOOLEAN,
     enter_short : BOOLEAN]

\* CtmStrategy::onBar: the ctx.placeOrder calls it may make on ledger s under the
\* crossings sig
Ctm_orders(s, bar, pct, sig) ==
    LET pos == s.position
        enter_long  == pos <= 0 /\ sig.enter_long
        enter_short == pos >= 0 /\ sig.enter_short
    IN  IF bar.close <= 0 THEN {<<>>}
        ELSE IF sig.close_long /\ pos > 0
        THEN {<<[side |-> Short, quantity |-> q]>> : q \in IntCasts(pos)}
        ELSE IF sig.close_short /\ pos < 0
        THEN {<<[side |-> Long, quantity |-> q]>> : q \in IntCasts(0 - pos)}
        ELSE IF enter_long /\ pos = 0
        THEN {<<[side |-> Long, quantity |-> EntryUnits(s, bar.close, pct)]>>}
        ELSE IF enter_short /\ pos = 0
        THEN {<<[side |-> Short, quantity |-> EntryUnits(s, bar.close, pct)]>>}
        ELSE {<<>>}

\* what OnePointOhStrategy::onBar finds in the bars: whether the stop or the target
\* was reached, and the breakout, if any, with a valid stop
OnePointOhSignals == [hit : BOOLEAN, entry : {"none", "long", "short"}]

\* OnePointOhStrategy::onBar: the members in_position_ and is_long_ after the call and
\* the ctx.placeOrder calls it may have made
OnePointOh_orders(st, s, bar, fraction, sig) ==
    LET pos  == s.position
        stay == {[st |-> st, calls |-> <<>>]}
        size == RFloor(RDiv(RMul(s.equity, fraction), R(bar.close)))
    IN  IF bar.close <= 0 THEN stay
        ELSE IF st.in_position /\ pos # 0
        THEN {IF qty <= 0
              THEN [st |-> [st EXCEPT !.in_position = FALSE], calls |-> <<>>]
              ELSE IF sig.hit
              THEN [st |-> [st EXCEPT !.in_position = FALSE],
                    calls |-> <<[side |-> IF st.is_long THEN Short ELSE Long,
                                 quantity |-> qty]>>]
              ELSE [st |-> st, calls |-> <<>>] : qty \in IntCasts(Abs(pos))}
        ELSE IF st.in_position \/ sig.entry = "none" \/ RLe(s.equity, R(0)) THEN stay
        ELSE {[st |-> [in_position |-> TRUE, is_long |-> (sig.entry = "long")],
               calls |-> <<[side |-> IF sig.entry = "long" THEN Long ELSE Short,
                            quantity |-> IF qty < 1 THEN 1 ELSE qty]>>] :
                  qty \in IntCasts(size)}

\* the bundled strategies with their default sizes: all of the equity for SMA
\* crossover and CTM, 15% for OnePointOh
BundledNames == {"sma", "ctm", "onepointoh"}

BundledFraction(name) == IF name = "onepointoh" THEN Norm(15, 100) ELSE R(1)

\* the initial cash of the runs: small, and large against the prices
BundledCash == {10, 100000}

\* the prices of the bars
BundledPrices == {1, 2}

\* a backtester after onStart over a file of MaxHold bars, with strategy name: st are
\* the strategy's members, order its last ctx.placeOrder call and fill what the last
\* processOrders did
NewBundledRun(name, cash) ==
    [kind |-> "bundled", name |-> name, st |-> [in_position |-> FALSE, is_long |-> TRUE],
     sim |-> NewSimulator(cash, 0, 0), peak_equity |-> R(cash), phase |-> "loop",
     i |-> 0, bar |-> NoBar, order |-> NoOrbOrder, fill |-> NoFill]

BundledInit ==
    /\ CoreIdle
    /\ unit \in {NewBundledRun(name, cash) : name \in BundledNames, cash \in BundledCash}
                    \cup {NewOrbRun(e, t) : e \in BOOLEAN, t \in BOOLEAN}

\* Backtester::run for bar i of the file, up to the call of onBar
BundledLoopStep ==
    /\ unit.kind = "bundled"
    /\ unit.phase = "loop"
    /\ unit.i < MaxHold
    /\ \E price \in BundledPrices :
          LET bar == Bar(unit.i + 1, price, price)
              s1  == processOrders(unit.sim, bar)
              u   == [unit EXCEPT !.bar = bar, !.order = NoOrbOrder,
                                  !.fill = FillOf(unit.sim, s1)]
          IN  unit' = IF RLe(EquityAfterFill(s1, bar), R(0))
                      THEN [u EXCEPT !.sim = updateEquity(s1, bar), !.phase = "done"]
                      ELSE [u EXCEPT !.sim = s1, !.phase = "onBar"]
    /\ UNCHANGED coreVars

\* Backtester::run from the return of an onBar that left the members st and made the
\* calls to the end of the iteration
BundledClose(st, calls) ==
    LET s0   == PlaceAll([s |-> unit.sim, h |-> NoHist(unit.sim)], calls).s
        s1   == updateEquity(s0, unit.bar)
        peak == IF RLt(unit.peak_equity, s1.equity) THEN s1.equity ELSE unit.peak_equity
        stop == CloseStop(peak, s1.equity) # ""
        ord  == IF s0.has_pending
                THEN [placed |-> TRUE, side |-> s0.pending_order.side,
                      quantity |-> s0.pending_order.quantity,
                      position |-> unit.sim.position]
                ELSE NoOrbOrder
    IN  [unit EXCEPT !.st = st, !.sim = s1, !.peak_equity = peak, !.order = ord,
                     !.i = IF stop THEN @ ELSE @ + 1,
                     !.phase = IF stop THEN "done" ELSE "loop"]

SmaCrossoverRunOnBar ==
    /\ unit.kind = "bundled" /\ unit.name = "sma" /\ unit.phase = "onBar"
    /\ \E cmp \in SmaSignals :
          \E calls \in SmaCrossover_orders(unit.sim, unit.bar,
                                           BundledFraction(unit.name), cmp) :
              unit' = BundledClose(unit.st, calls)
    /\ UNCHANGED coreVars

CtmRunOnBar ==
    /\ unit.kind = "bundled" /\ unit.name = "ctm" /\ unit.phase = "onBar"
    /\ \E sig \in CtmSignals :
          \E calls \in Ctm_orders(unit.sim, unit.bar, BundledFraction(unit.name), sig) :
              unit' = BundledClose(unit.st, calls)
    /\ UNCHANGED coreVars

OnePointOhRunOnBar ==
    /\ unit.kind = "bundled" /\ unit.name = "onepointoh" /\ unit.phase = "onBar"
    /\ \E sig \in OnePointOhSignals :
          \E r \in OnePointOh_orders(unit.st, unit.sim, unit.bar,
                                     BundledFraction(unit.name), sig) :
              unit' = BundledClose(r.st, r.calls)
    /\ UNCHANGED coreVars

BundledNext ==
    \/ BundledLoopStep
    \/ SmaCrossoverRunOnBar
    \/ CtmRunOnBar
    \/ OnePointOhRunOnBar
    \/ OrbLoopStep
    \/ OrbOnBar

SpecBundled == BundledInit /\ [][BundledNext]_vars

\* C39 (as claimed): under each bundled strategy, every order that fills against the
\* position has the quantity |position| and leaves the position at 0, no fill takes
\* the position from one sign to the other, and every order that does not reduce the
\* position is placed while the position is 0
C39_ExitsCloseWholePosition ==
    unit.kind \in {"bundled", "orb"} =>
        /\ (unit.fill.quantity > 0
              /\ ReducesPosition([side |-> unit.fill.side, position |-> unit.fill.was])) =>
              /\ unit.fill.quantity = Abs(unit.fill.was)
              /\ unit.fill.now = 0
        /\ ~(unit.fill.was > 0 /\ unit.fill.now < 0)
        /\ ~(unit.fill.was < 0 /\ unit.fill.now > 0)
        /\ (unit.order.placed /\ ~ReducesPosition(unit.order)) => unit.order.position = 0

\* the same, for the runs in which int holds every position
C39_WithinIntRange ==
    (Abs(unit.fill.was) <= IntMax /\ Abs(unit.sim.position) <= IntMax) =>
        C39_ExitsCloseWholePosition
====
